---------------------------- MODULE Spec2Model ----------------------------
(***************************************************************************)
(* Model of linux-bsec-exporter: the BSEC engine adapter (src/bsec.rs),    *)
(* its process-wide single-instance lock, and the Monitor duty cycle       *)
(* (src/monitor.rs) with the state file persistence (src/persistance.rs).  *)
(*                                                                         *)
(* Four state machines share the module:                                   *)
(*   LockSpec  concurrent tasks calling Bsec::init and dropping the Bsec   *)
(*   Spec      Monitor::start, the monitoring loop and Monitor::stop       *)
(*   SubscriptionSpec  Bsec::update_subscription and the steps after it    *)
(*   MeasurementSpec   Bsec::start_next_measurement and                    *)
(*                     Bsec::process_last_measurement                      *)
(***************************************************************************)
EXTENDS Integers, Sequences, FiniteSets, TLC

\* ------------------------------------------------------------------ bounds

\* Number of concurrent tasks that call Bsec::init / drop in LockSpec.
NumTasks == 3

Tasks == 1..NumTasks

\* The clock counts whole units of 20 s (2 * 10^10 ns): the Time trait is
\* generic and the model takes a clock of that resolution, so that the
\* numbers fit TLC's integers.  MaxTime is the horizon of the clock.
MaxTime == 4

\* Largest distance between a control query and the next_call it returns.
MaxPeriod == 1

\* Largest profile duration the sensor's start_measurement returns.
MaxDuration == 1

\* The engine's internal state is one of 0..MaxEngState.
MaxEngState == 1

\* monitor.rs:79  60_000_000_000 ns, in clock units of 20 s.
SaveInterval == 3

EngStates == 0..MaxEngState

\* Longest blob the model writes out.
MaxBlobLen == 2

VARIABLES
    BSEC_IN_USE,    \* bsec.rs:6   static AtomicBool
    live,           \* set of tasks that own a constructed Bsec value
    taskPc,         \* per task: position inside Bsec::init / holding a Bsec
    taskResult,     \* per task: result of its latest Bsec::init call
    aliveAtCas,     \* per task: a Bsec was alive when its latest init ran the CAS
    casAfterDrop,   \* per task: its latest init ran the CAS right after a drop
    freedByDrop,    \* the lock was released by a drop and not taken since
    now,              \* the clock (Time::timestamp_ns), in units
    next_measurement, \* Bsec.next_measurement
    engState,         \* the engine's internal state
    measuring,        \* the sensor has a started measurement not yet read
    file,             \* the state file: "NotFound" or its bytes
    pc,               \* position of Monitor::start / monitoring_loop
    phase,            \* "start": next_measurement runs inside Monitor::start
                      \* "loop" : the spawned monitoring_loop runs
    duration,         \* local `duration` of Monitor::next_measurement
    startedAt,        \* the clock when the measurement in progress was started
    outputs,          \* result of the latest process_last_measurement
    current,          \* the watch cell behind Monitor::current
    last_state_save,  \* local of monitoring_loop
    shutdown,         \* the oneshot channel request_shutdown/shutdown_requested
    receiverAlive,    \* a watch::Receiver of `current` still exists
    callerPc,         \* the task that calls Monitor::start and Monitor::stop
    stepped,          \* bsec_do_steps has completed at least once
    restoreOrder,     \* "none" | "restore_first" | "step_first"
    sleepComputed,    \* sleep_duration was computed since the last control query
    slept,            \* the tick in progress did sleep before its control query
    iterOpen,         \* a loop iteration has begun and is not yet published
    autosaved,        \* a periodic save has succeeded
    exitSaves,        \* save_state calls made after the loop was left
    errors,           \* errors that start() or the monitoring task ran into
    drops,            \* times the Bsec given to Monitor::start was dropped
    subscribed,       \* Bsec.subscribed: the set of sensors whose bit is set
    ulp_plus_queue,   \* Bsec.ulp_plus_queue, likewise
    args,             \* the request list of an update_subscription call
                      \* that is about to run
    lastCall,         \* the latest call of a Bsec method and what it did
    time_stamp,       \* bsec.rs:153  the time stamp the latest engine step
                      \* of a process_last_measurement call gave its inputs
    configuration,    \* the configuration blob the engine works with
    measurement_available_after
                      \* bme680.rs:33  Dev.measurement_available_after:
                      \* "None", or "Some" instant

lockVars == <<BSEC_IN_USE, live, taskPc, taskResult, aliveAtCas, casAfterDrop,
              freedByDrop>>

monVars == <<now, next_measurement, engState, measuring, file, pc, phase,
             duration, startedAt, outputs, current, last_state_save, shutdown,
             receiverAlive, callerPc, stepped, restoreOrder, sleepComputed,
             slept, iterOpen, autosaved, exitSaves, errors, drops>>

subVars == <<subscribed, ulp_plus_queue, args, lastCall, time_stamp,
             configuration, measurement_available_after>>

vars == <<lockVars, monVars, subVars>>

\* ------------------------------------------------- the single-instance lock

\* AtomicBool::compare_and_swap(expected, new): stores new when the value is
\* expected, and returns the previous value in either case.
CompareAndSwap(value, expected, new) ==
    [prev |-> value, next |-> IF value = expected THEN new ELSE value]

AcquiredAlways(prev) == TRUE

\* bsec.rs:62  if !BSEC_IN_USE.compare_and_swap(false, true, SeqCst)
Acquired(prev) == ~prev

StoreOnDropKeeps(flag) == flag

\* bsec.rs:294  BSEC_IN_USE.store(false, SeqCst)
StoreOnDrop(flag) == FALSE

\* Return codes of the engine's one-time initialization call bsec_init().
BsecInitReturns == {"BSEC_OK", "BSEC_E"}

\* Bsec::init, first step: the compare-and-swap on BSEC_IN_USE.  A refused
\* call returns Err(BsecAlreadyInUse) at once.
InitCas(t) ==
    /\ taskPc[t] = "idle"
    /\ LET cas == CompareAndSwap(BSEC_IN_USE, FALSE, TRUE) IN
        /\ BSEC_IN_USE' = cas.next
        /\ aliveAtCas' = [aliveAtCas EXCEPT ![t] = (live # {})]
        /\ casAfterDrop' = [casAfterDrop EXCEPT ![t] = freedByDrop]
        /\ IF Acquired(cas.prev)
              THEN /\ taskPc' = [taskPc EXCEPT ![t] = "bsec_init"]
                   /\ taskResult' = [taskResult EXCEPT ![t] = "pending"]
                   /\ freedByDrop' = FALSE
              ELSE /\ taskPc' = taskPc
                   /\ taskResult' = [taskResult EXCEPT ![t] = "BsecAlreadyInUse"]
                   /\ freedByDrop' = freedByDrop
    /\ UNCHANGED <<live, monVars, subVars>>

\* Bsec::init, second step: bsec_init().into_result()? and the construction
\* of Self.  An engine error leaves through `?` and the lock stays as the
\* compare-and-swap set it.
InitEngine(t) ==
    /\ taskPc[t] = "bsec_init"
    /\ \E rc \in BsecInitReturns :
        IF rc = "BSEC_OK"
           THEN /\ taskPc' = [taskPc EXCEPT ![t] = "holding"]
                /\ taskResult' = [taskResult EXCEPT ![t] = "Ok"]
                /\ live' = live \cup {t}
           ELSE /\ taskPc' = [taskPc EXCEPT ![t] = "idle"]
                /\ taskResult' = [taskResult EXCEPT ![t] = "BsecError"]
                /\ live' = live
    /\ UNCHANGED <<BSEC_IN_USE, aliveAtCas, casAfterDrop, freedByDrop, monVars, subVars>>

\* impl Drop for Bsec
DropBsec(t) ==
    /\ taskPc[t] = "holding"
    /\ BSEC_IN_USE' = StoreOnDrop(BSEC_IN_USE)
    /\ live' = live \ {t}
    /\ taskPc' = [taskPc EXCEPT ![t] = "idle"]
    /\ freedByDrop' = TRUE
    /\ UNCHANGED <<taskResult, aliveAtCas, casAfterDrop, monVars, subVars>>

\* ------------------------------------------------------------ environment

\* The task that built the Bsec handed to Monitor::start.
MonitorTask == CHOOSE t \in Tasks : TRUE

\* Time::timestamp_ns(): the clock never goes back; between two readings it
\* stays or ticks once (FakeTime adds on every reading, bsec.rs:745-748).
ClockReads(t) == {r \in t..MaxTime : r - t <= 1}

SleepEndNone(t, d) == t

SleepEndHalf(t, d) == t + (d \div 2)

\* Sleep::sleep(d) started at t: the clock when the sleep is over
\* (FakeTime::advance_by, monitor.rs:125-128; tokio sleeps at least d, the
\* surplus is TimePasses).
SleepEnd(t, d) == t + d

\* next_call values bsec_sensor_control(ts, ..) may return.
NextCalls(ts) == {n \in 0..MaxTime : n >= ts - 1 /\ n <= ts + MaxPeriod}

\* Profile durations BmeSensor::start_measurement may return at time t.
ProfileDurations(t) == {d \in 0..MaxDuration : t + d <= MaxTime}

\* bsec_do_steps: the engine's state after one more step.
DoSteps(e) == (e + 1) % (MaxEngState + 1)

\* BSEC_MAX_STATE_BLOB_SIZE and BSEC_MAX_PROPERTY_BLOB_SIZE: the sizes of the
\* buffers of bsec.rs:204 and bsec.rs:235.
BSEC_MAX_STATE_BLOB_SIZE == MaxBlobLen

BSEC_MAX_PROPERTY_BLOB_SIZE == MaxBlobLen

\* A buffer of zeros of the given size after the engine has written b to its
\* beginning.
Buffer(size, b) == [i \in 1..size |-> IF i <= Len(b) THEN b[i] ELSE 0]

\* bsec_get_state: the bytes the engine serializes its state to.
SerializedState(e) == <<e>>

GetStateBlobWhole(e) ==
    Buffer(BSEC_MAX_STATE_BLOB_SIZE, SerializedState(e))

\* bsec.rs:203-219  Bsec::get_state: the engine writes to `state` and sets
\* state_length; the result is state[..state_length]
GetStateBlob(e) ==
    LET state == Buffer(BSEC_MAX_STATE_BLOB_SIZE, SerializedState(e))
        state_length == Len(SerializedState(e))
    IN  SubSeq(state, 1, state_length)

\* bsec_set_configuration accepts a blob that is not empty and not longer
\* than the engine's maximum.
ValidConfiguration(b) == Len(b) \in 1..BSEC_MAX_PROPERTY_BLOB_SIZE

GetConfigurationWhole(c) == Buffer(BSEC_MAX_PROPERTY_BLOB_SIZE, c)

\* bsec.rs:234-250  Bsec::get_configuration: the engine writes the
\* configuration c it works with to serialized_settings and sets
\* serialized_settings_length; the result is the slice up to that length
GetConfiguration(c) ==
    LET serialized_settings == Buffer(BSEC_MAX_PROPERTY_BLOB_SIZE, c)
        serialized_settings_length == Len(c)
    IN  SubSeq(serialized_settings, 1, serialized_settings_length)

\* bsec_set_state accepts the blobs bsec_get_state produces.
ValidBlob(b) == Len(b) = 1 /\ b[1] \in EngStates

DecodeBlob(b) == b[1]

\* ------------------------------------------------------------ persistence

NotFound == [exists |-> FALSE, bytes |-> <<>>]

FileOf(b) == [exists |-> TRUE, bytes |-> b]

\* Contents the state file may have before Monitor::start.
FileValues == {NotFound} \cup {FileOf(GetStateBlob(e)) : e \in EngStates}

\* What File::open may answer (persistance.rs:33): the file; for a missing
\* file the error NotFound; or, in either case, an error of another kind.
OpenResults(f) ==
    IF f.exists THEN {"Ok", "PermissionDenied"}
                ELSE {"NotFound", "PermissionDenied"}

\* What read_to_end may answer (persistance.rs:36): the bytes of the file, or
\* an error.
ReadResults(f) ==
    {[ok |-> TRUE, bytes |-> f.bytes], [ok |-> FALSE, bytes |-> <<>>]}

LoadStateResultStrict(open, read) ==
    IF open = "Ok" /\ read.ok
       THEN [ok |-> TRUE, some |-> TRUE, bytes |-> read.bytes]
       ELSE [ok |-> FALSE, some |-> FALSE, bytes |-> <<>>]

\* persistance.rs:32-44  StateFile::load_state: Ok(Some(bytes)) of a file
\* opened and read, Ok(None) for NotFound, Err for the rest
LoadStateResult(open, read) ==
    CASE open = "Ok" ->
             IF read.ok THEN [ok |-> TRUE, some |-> TRUE, bytes |-> read.bytes]
                        ELSE [ok |-> FALSE, some |-> FALSE, bytes |-> <<>>]
      [] open = "NotFound" -> [ok |-> TRUE, some |-> FALSE, bytes |-> <<>>]
      [] OTHER -> [ok |-> FALSE, some |-> FALSE, bytes |-> <<>>]

\* The results StateFile::load_state may have on the file f.
LoadResults(f) ==
    {LoadStateResult(o, r) : o \in OpenResults(f), r \in ReadResults(f)}

CreateAppending(f) == IF f.exists THEN f ELSE FileOf(<<>>)

\* persistance.rs:47  File::create: the file is there and is empty
Create(f) == FileOf(<<>>)

\* persistance.rs:48  write_all, k bytes of b written after what the file
\* holds
WriteAll(f, b, k) == FileOf(f.bytes \o SubSeq(b, 1, k))

\* persistance.rs:46-49  StateFile::save_state(b): File::create fails and
\* leaves the file as it was, or it truncates the file and write_all writes
\* all of b, or fails after a part of it.
SaveResults(f, b) ==
    {[ok |-> FALSE, file |-> f, io |-> "CreateError"]}
        \cup {[ok |-> k = Len(b),
               file |-> WriteAll(Create(f), b, k),
               io |-> IF k = Len(b) THEN "Ok" ELSE "WriteError"] :
                 k \in 0..Len(b)}

\* ------------------------------------- the Bsec methods: data and results

\* Number of virtual sensors the model tells apart.
NumSensors == 2

\* VirtualSensorOutput: every variant is one bit of the u32 bitmaps
\* (bsec.rs:464-479), so a bitmap is the set of the variants whose bit is set.
Sensors == 1..NumSensors

\* SampleRate, with "Continuous" for every rate that is neither of the
\* other two.
SampleRates == {"Disabled", "UlpMeasurementOnDemand", "Continuous"}

\* RequestedSensorConfiguration
Requests == [sample_rate : SampleRates, sensor : Sensors]

\* Longest request list written out element by element.
MaxRequests == 2

\* usize -> u8 of bsec.rs:92-95 and 176-179
U8Max == 255

\* A request list: `reqs` written out element by element, or, for the
\* lists a u8 cannot count, `copies` times the one request of `reqs`.
WrittenLists ==
    {[reqs |-> r, copies |-> 1] :
        r \in UNION {[1..n -> Requests] : n \in 0..MaxRequests}}

LongLists ==
    {[reqs |-> <<r>>, copies |-> k] : r \in Requests, k \in {U8Max, U8Max + 1}}

RequestLists == WrittenLists \cup LongLists

\* requested_outputs.len()
ListLen(l) == Len(l.reqs) * l.copies

TryIntoU8Wide(n) == TRUE

\* usize::try_into::<u8>() is Ok
TryIntoU8(n) == n <= U8Max

ApplyRequestSubscribedOnly(sets, r) ==
    CASE r.sample_rate = "Disabled" ->
             [subscribed |-> sets.subscribed \ {r.sensor},
              ulp_plus_queue |-> sets.ulp_plus_queue]
      [] r.sample_rate = "UlpMeasurementOnDemand" ->
             [subscribed |-> sets.subscribed,
              ulp_plus_queue |-> sets.ulp_plus_queue \cup {r.sensor}]
      [] OTHER ->
             [subscribed |-> sets.subscribed \cup {r.sensor},
              ulp_plus_queue |-> sets.ulp_plus_queue]

\* bsec.rs:102-113  the match on changed.sample_rate
ApplyRequest(sets, r) ==
    CASE r.sample_rate = "Disabled" ->
             [subscribed |-> sets.subscribed \ {r.sensor},
              ulp_plus_queue |-> sets.ulp_plus_queue \ {r.sensor}]
      [] r.sample_rate = "UlpMeasurementOnDemand" ->
             [subscribed |-> sets.subscribed,
              ulp_plus_queue |-> sets.ulp_plus_queue \cup {r.sensor}]
      [] OTHER ->
             [subscribed |-> sets.subscribed \cup {r.sensor},
              ulp_plus_queue |-> sets.ulp_plus_queue]

RECURSIVE ApplyRequestsFrom(_, _, _)
ApplyRequestsFrom(sets, reqs, i) ==
    IF i > Len(reqs) THEN sets
    ELSE ApplyRequestsFrom(ApplyRequest(sets, reqs[i]), reqs, i + 1)

\* bsec.rs:101-114  for changed in requested_outputs.iter(); the second and
\* later copies of one request change nothing after the first
ApplyRequests(sets, l) == ApplyRequestsFrom(sets, l.reqs, 1)

\* The rates that occur in a request list.
RatesOf(l) == {l.reqs[i].sample_rate : i \in 1..Len(l.reqs)}

\* Longest list of required sensor settings the engine reports.
MaxSettings == 2

\* bsec_physical_sensor_t: the wire codes of the physical sensors, from the
\* engine's header bsec_datatypes.h.
bsec_physical_sensor_t ==
    [BSEC_INPUT_PRESSURE |-> 1, BSEC_INPUT_HUMIDITY |-> 2,
     BSEC_INPUT_TEMPERATURE |-> 3, BSEC_INPUT_GASRESISTOR |-> 4,
     BSEC_INPUT_HEATSOURCE |-> 14,
     BSEC_INPUT_DISABLE_BASELINE_TRACKER |-> 23]

\* bsec.rs:407-415  enum PhysicalSensorInput
PhysicalSensorInput ==
    {"Pressure", "Humidity", "Temperature", "GasResistor", "HeatSource",
     "DisableBaselineTracker"}

PhysicalSensorInputTryFromDefault(id) ==
    CASE id = bsec_physical_sensor_t.BSEC_INPUT_PRESSURE ->
             [ok |-> TRUE, sensor |-> "Pressure"]
      [] id = bsec_physical_sensor_t.BSEC_INPUT_HUMIDITY ->
             [ok |-> TRUE, sensor |-> "Humidity"]
      [] id = bsec_physical_sensor_t.BSEC_INPUT_TEMPERATURE ->
             [ok |-> TRUE, sensor |-> "Temperature"]
      [] id = bsec_physical_sensor_t.BSEC_INPUT_GASRESISTOR ->
             [ok |-> TRUE, sensor |-> "GasResistor"]
      [] id = bsec_physical_sensor_t.BSEC_INPUT_HEATSOURCE ->
             [ok |-> TRUE, sensor |-> "HeatSource"]
      [] OTHER -> [ok |-> TRUE, sensor |-> "DisableBaselineTracker"]

\* bsec.rs:417-441  TryFrom<u8> (through TryFrom<u32>) for
\* PhysicalSensorInput
PhysicalSensorInputTryFrom(id) ==
    CASE id = bsec_physical_sensor_t.BSEC_INPUT_PRESSURE ->
             [ok |-> TRUE, sensor |-> "Pressure"]
      [] id = bsec_physical_sensor_t.BSEC_INPUT_HUMIDITY ->
             [ok |-> TRUE, sensor |-> "Humidity"]
      [] id = bsec_physical_sensor_t.BSEC_INPUT_TEMPERATURE ->
             [ok |-> TRUE, sensor |-> "Temperature"]
      [] id = bsec_physical_sensor_t.BSEC_INPUT_GASRESISTOR ->
             [ok |-> TRUE, sensor |-> "GasResistor"]
      [] id = bsec_physical_sensor_t.BSEC_INPUT_HEATSOURCE ->
             [ok |-> TRUE, sensor |-> "HeatSource"]
      [] id = bsec_physical_sensor_t.BSEC_INPUT_DISABLE_BASELINE_TRACKER ->
             [ok |-> TRUE, sensor |-> "DisableBaselineTracker"]
      [] OTHER -> [ok |-> FALSE, sensor |-> "InvalidPhysicalSensorId"]

\* bsec.rs:443-455  From<PhysicalSensorInput> for bsec_physical_sensor_t
PhysicalSensorInputInto(v) ==
    CASE v = "Pressure" -> bsec_physical_sensor_t.BSEC_INPUT_PRESSURE
      [] v = "Humidity" -> bsec_physical_sensor_t.BSEC_INPUT_HUMIDITY
      [] v = "Temperature" -> bsec_physical_sensor_t.BSEC_INPUT_TEMPERATURE
      [] v = "GasResistor" -> bsec_physical_sensor_t.BSEC_INPUT_GASRESISTOR
      [] v = "HeatSource" -> bsec_physical_sensor_t.BSEC_INPUT_HEATSOURCE
      [] v = "DisableBaselineTracker" ->
             bsec_physical_sensor_t.BSEC_INPUT_DISABLE_BASELINE_TRACKER

\* bsec.rs:457-461  From<PhysicalSensorInput> for u8: `as u8` keeps the low
\* eight bits
PhysicalSensorInputIntoU8(v) == PhysicalSensorInputInto(v) % (U8Max + 1)

\* sensor_id values of bsec_sensor_configuration_t as the engine reports
\* them: 1 and 2 are physical sensors, 0 is none.
WirePhysicalIds == {0, 1, 2}

\* What bsec_update_subscription may write to required_sensor_settings and
\* n_required_sensor_settings: n entries, each with its sensor_id and a
\* sample_rate (here the entry's position, which tells the entries apart);
\* the rest of the array keeps the zeros of bsec.rs:84-87.
EngineSettings ==
    UNION {[1..n -> WirePhysicalIds] : n \in 0..MaxSettings}

SettingsArray(ids) ==
    [i \in 1..(MaxSettings + 1) |->
        IF i <= Len(ids) THEN [sample_rate |-> i, sensor_id |-> ids[i]]
                         ELSE [sample_rate |-> 0, sensor_id |-> 0]]

\* bsec.rs:367-377  TryFrom<&bsec_sensor_configuration_t>
RequiredSensorSettingsTryFrom(c) ==
    LET s == PhysicalSensorInputTryFrom(c.sensor_id) IN
    [ok |-> s.ok, value |-> [sample_rate |-> c.sample_rate, sensor |-> s.sensor]]

RECURSIVE FilterMapSettingsKeepAll(_, _, _)
FilterMapSettingsKeepAll(array, n, i) ==
    IF i > n \/ i > Len(array) THEN <<>>
    ELSE <<RequiredSensorSettingsTryFrom(array[i]).value>>
             \o FilterMapSettingsKeepAll(array, n, i + 1)

\* bsec.rs:116-120  .iter().take(n).filter_map(|x| try_from(x).ok()).collect()
RECURSIVE FilterMapSettings(_, _, _)
FilterMapSettings(array, n, i) ==
    IF i > n \/ i > Len(array) THEN <<>>
    ELSE LET c == RequiredSensorSettingsTryFrom(array[i]) IN
         (IF c.ok THEN <<c.value>> ELSE <<>>)
             \o FilterMapSettings(array, n, i + 1)

\* sensor_id values of bsec_output_t: a virtual sensor's, or 0 for none.
WireVirtualIds == {0} \cup Sensors

\* accuracy values of bsec_output_t the model tells apart.
WireAccuracies == {3, 4}

\* signal values of bsec_output_t the model tells apart.
WireSignals == {0}

\* The entries bsec_do_steps may write to the output buffer.
RawOutputs ==
    [sensor_id : WireVirtualIds, accuracy : WireAccuracies,
     signal : WireSignals]

\* bsec_virtual_sensor_t: the wire codes of the virtual sensors, from the
\* engine's header bsec_datatypes.h.
bsec_virtual_sensor_t ==
    [BSEC_OUTPUT_IAQ |-> 1, BSEC_OUTPUT_STATIC_IAQ |-> 2,
     BSEC_OUTPUT_CO2_EQUIVALENT |-> 3,
     BSEC_OUTPUT_BREATH_VOC_EQUIVALENT |-> 4,
     BSEC_OUTPUT_RAW_TEMPERATURE |-> 6, BSEC_OUTPUT_RAW_PRESSURE |-> 7,
     BSEC_OUTPUT_RAW_HUMIDITY |-> 8, BSEC_OUTPUT_RAW_GAS |-> 9,
     BSEC_OUTPUT_STABILIZATION_STATUS |-> 12,
     BSEC_OUTPUT_RUN_IN_STATUS |-> 13,
     BSEC_OUTPUT_SENSOR_HEAT_COMPENSATED_TEMPERATURE |-> 14,
     BSEC_OUTPUT_SENSOR_HEAT_COMPENSATED_HUMIDITY |-> 15,
     BSEC_OUTPUT_COMPENSATED_GAS |-> 18,
     BSEC_OUTPUT_GAS_PERCENTAGE |-> 21]

\* bsec.rs:463-479  enum VirtualSensorOutput.  Each variant is one bit of a
\* u32; a sensor is named here by the position of its bit, counted from 1, so
\* that Sensors are the first NumSensors variants.
VirtualSensorOutput ==
    <<"Iaq", "StaticIaq", "Co2Equivalent", "BreathVocEquivalent",
      "RawTemperature", "RawPressure", "RawHumidity", "RawGas",
      "StabilizationStatus", "RunInStatus",
      "SensorHeatCompensatedTemperature", "SensorHeatCompensatedHumidity",
      "DebugCompensatedGas", "GasPercentage">>

Variant(name) ==
    CHOOSE v \in 1..Len(VirtualSensorOutput) : VirtualSensorOutput[v] = name

\* bsec.rs:469  VirtualSensorOutput::RawTemperature
RawTemperature == Variant("RawTemperature")

\* bsec.rs:481-505  From<VirtualSensorOutput> for bsec_virtual_sensor_t
VirtualSensorOutputInto(v) ==
    LET name == VirtualSensorOutput[v]
        t == bsec_virtual_sensor_t
    IN  CASE name = "Iaq" -> t.BSEC_OUTPUT_IAQ
          [] name = "StaticIaq" -> t.BSEC_OUTPUT_STATIC_IAQ
          [] name = "Co2Equivalent" -> t.BSEC_OUTPUT_CO2_EQUIVALENT
          [] name = "BreathVocEquivalent" ->
                 t.BSEC_OUTPUT_BREATH_VOC_EQUIVALENT
          [] name = "RawTemperature" -> t.BSEC_OUTPUT_RAW_TEMPERATURE
          [] name = "RawPressure" -> t.BSEC_OUTPUT_RAW_PRESSURE
          [] name = "RawHumidity" -> t.BSEC_OUTPUT_RAW_HUMIDITY
          [] name = "RawGas" -> t.BSEC_OUTPUT_RAW_GAS
          [] name = "StabilizationStatus" ->
                 t.BSEC_OUTPUT_STABILIZATION_STATUS
          [] name = "RunInStatus" -> t.BSEC_OUTPUT_RUN_IN_STATUS
          [] name = "SensorHeatCompensatedTemperature" ->
                 t.BSEC_OUTPUT_SENSOR_HEAT_COMPENSATED_TEMPERATURE
          [] name = "SensorHeatCompensatedHumidity" ->
                 t.BSEC_OUTPUT_SENSOR_HEAT_COMPENSATED_HUMIDITY
          [] name = "DebugCompensatedGas" -> t.BSEC_OUTPUT_COMPENSATED_GAS
          [] name = "GasPercentage" -> t.BSEC_OUTPUT_GAS_PERCENTAGE

\* bsec.rs:507-541  TryFrom<u8> (through TryFrom<bsec_virtual_sensor_t>) for
\* VirtualSensorOutput
VirtualSensorOutputTryFrom(id) ==
    LET t == bsec_virtual_sensor_t
        Is(name) == [ok |-> TRUE, sensor |-> Variant(name)]
    IN  CASE id = t.BSEC_OUTPUT_IAQ -> Is("Iaq")
          [] id = t.BSEC_OUTPUT_STATIC_IAQ -> Is("StaticIaq")
          [] id = t.BSEC_OUTPUT_CO2_EQUIVALENT -> Is("Co2Equivalent")
          [] id = t.BSEC_OUTPUT_BREATH_VOC_EQUIVALENT ->
                 Is("BreathVocEquivalent")
          [] id = t.BSEC_OUTPUT_RAW_TEMPERATURE -> Is("RawTemperature")
          [] id = t.BSEC_OUTPUT_RAW_PRESSURE -> Is("RawPressure")
          [] id = t.BSEC_OUTPUT_RAW_HUMIDITY -> Is("RawHumidity")
          [] id = t.BSEC_OUTPUT_RAW_GAS -> Is("RawGas")
          [] id = t.BSEC_OUTPUT_STABILIZATION_STATUS ->
                 Is("StabilizationStatus")
          [] id = t.BSEC_OUTPUT_RUN_IN_STATUS -> Is("RunInStatus")
          [] id = t.BSEC_OUTPUT_SENSOR_HEAT_COMPENSATED_TEMPERATURE ->
                 Is("SensorHeatCompensatedTemperature")
          [] id = t.BSEC_OUTPUT_SENSOR_HEAT_COMPENSATED_HUMIDITY ->
                 Is("SensorHeatCompensatedHumidity")
          [] id = t.BSEC_OUTPUT_COMPENSATED_GAS -> Is("DebugCompensatedGas")
          [] id = t.BSEC_OUTPUT_GAS_PERCENTAGE -> Is("GasPercentage")
          [] OTHER -> [ok |-> FALSE, sensor |-> 0]

\* bsec.rs:332-344  TryFrom<u8> for Accuracy
AccuracyTryFrom(a) ==
    CASE a = 0 -> [ok |-> TRUE, accuracy |-> "Unreliable"]
      [] a = 1 -> [ok |-> TRUE, accuracy |-> "LowAccuracy"]
      [] a = 2 -> [ok |-> TRUE, accuracy |-> "MediumAccuracy"]
      [] a = 3 -> [ok |-> TRUE, accuracy |-> "HighAccuracy"]
      [] OTHER -> [ok |-> FALSE, accuracy |-> "InvalidAccuracy"]

\* bsec.rs:312-322  TryFrom<&bsec_output_t> for OutputSignal
OutputSignalTryFrom(o) ==
    LET s == VirtualSensorOutputTryFrom(o.sensor_id)
        a == AccuracyTryFrom(o.accuracy)
    IN  [ok |-> s.ok /\ a.ok,
         value |-> [signal |-> o.signal, sensor |-> s.sensor,
                    accuracy |-> a.accuracy]]

\* The entries of a raw output vector that convert, in order.
RECURSIVE Convertible(_, _)
Convertible(raw, i) ==
    IF i > Len(raw) THEN <<>>
    ELSE LET c == OutputSignalTryFrom(raw[i]) IN
         (IF c.ok THEN <<c.value>> ELSE <<>>) \o Convertible(raw, i + 1)

\* bsec.rs:195-200  .map(try_from).collect::<Result<Vec<_>, _>>() and
\* Ok(signals?): the first entry that fails makes the whole an Err
CollectOutputs(raw) ==
    IF \A i \in 1..Len(raw) : OutputSignalTryFrom(raw[i]).ok
       THEN [ok |-> TRUE, value |-> Convertible(raw, 1)]
       ELSE [ok |-> FALSE, value |-> <<>>]

QueueAfterStepKept(ulp) == ulp

\* bsec.rs:180  self.ulp_plus_queue = 0
QueueAfterStep(ulp) == {}

SetsAfterStepBoth(sets) == [subscribed |-> {}, ulp_plus_queue |-> {}]

\* bsec.rs:152-201  the two bitmaps after process_last_measurement has got a
\* reading: line 180 assigns ulp_plus_queue and nothing assigns subscribed
SetsAfterStep(sets) ==
    [sets EXCEPT !.ulp_plus_queue = QueueAfterStep(sets.ulp_plus_queue)]

\* What bsec_do_steps may write: num_outputs entries, no more than the buffer
\* has.
EngineOutputs(size) == UNION {[1..n -> RawOutputs] : n \in 0..size}

\* monitor.rs:149-152, 166-169  the reading of the BME680 that
\* BmeSensor::get_measurement returns: one Temperature input of 22.0
Measurement == <<[sensor |-> "Temperature", signal |-> 22]>>

\* bsec.rs:154-165  every BmeOutput of the reading becomes a bsec_input_t
\* with the one time stamp of the call
InputsOf(reading, stamp) ==
    [i \in 1..Len(reading) |->
        [time_stamp |-> stamp,
         signal |-> reading[i].signal,
         signal_dimensions |-> 1,
         sensor_id |-> PhysicalSensorInputIntoU8(reading[i].sensor)]]

\* The members of a set of sensors, lowest first.
RECURSIVE Ascending(_)
Ascending(S) ==
    IF S = {} THEN <<>>
    ELSE LET m == CHOOSE x \in S : \A y \in S : x <= y
         IN  <<m>> \o Ascending(S \ {m})

\* bsec_do_steps, the outputs of a step that succeeds: one for each virtual
\* sensor the engine has a subscription for, as many as the buffer holds.
\* The raw temperature is the Temperature input handed through, so there is
\* none without such an input; every other signal comes from the engine's
\* state e.
DoStepsOutputs(e, inputs, sensors, size) ==
    LET temperature ==
            {i \in 1..Len(inputs) :
                inputs[i].sensor_id
                    = bsec_physical_sensor_t.BSEC_INPUT_TEMPERATURE}
        ready == {s \in sensors : s = RawTemperature => temperature # {}}
        order == Ascending(ready)
        all == [k \in 1..Len(order) |->
                   [sensor_id |-> VirtualSensorOutputInto(order[k]),
                    accuracy |-> 0,
                    signal |-> IF order[k] = RawTemperature
                                  THEN inputs[CHOOSE i \in temperature :
                                                  TRUE].signal
                                  ELSE e]]
    IN  SubSeq(all, 1, IF size < Len(all) THEN size ELSE Len(all))

BufferSensorsQueued(sub, ulp) == ulp

\* bsec.rs:166-175  the output buffer has one entry per bit of
\* subscribed | ulp_plus_queue
BufferSensors(sub, ulp) == sub \cup ulp

\* bsec.rs:152-201  the Vec<OutputSignal> of a process_last_measurement that
\* succeeds: the reading becomes the inputs, the engine steps to state e, and
\* its outputs are converted
StepOutputs(e, stamp, sub, ulp) ==
    LET buffer == BufferSensors(sub, ulp)
    IN  CollectOutputs(DoStepsOutputs(e, InputsOf(Measurement, stamp),
                                      buffer, Cardinality(buffer))).value

\* The settings a directive of bsec_sensor_control carries to the sensor.
BmeSettingsValues == {"profile_a", "profile_b"}

\* bsec_bme_settings_t as bsec_sensor_control fills it.
Directives ==
    [trigger_measurement : {0, 1}, settings : BmeSettingsValues,
     next_call : NextCalls(0)]

NoDirective == [trigger_measurement |-> 0, settings |-> "none", next_call |-> 0]

TriggeredAlways(d) == TRUE

\* bsec.rs:144  if bme_settings.trigger_measurement != 1 { WouldBlock }
Triggered(d) == d.trigger_measurement = 1

\* The record of a call: the method, its result and value, and what it did
\* on the way (`starts`: the calls of BmeSensor::start_measurement, each with
\* the settings passed and the sensor's answer; `stampBefore`: the time stamp
\* of the engine step before the one the call made; `io`: the answers of the
\* file system; `follows`: the method called just before; `reading`: the
\* answer of BmeSensor::get_measurement).
NoCall ==
    [op |-> "none", result |-> "none", value |-> <<>>,
     len |-> 0, rates |-> {}, engineCalled |-> FALSE,
     raw |-> <<>>, buffer |-> {},
     directive |-> NoDirective, starts |-> <<>>, stampBefore |-> 0,
     io |-> <<>>, follows |-> "none", reading |-> "none"]

NoArgs == [pending |-> FALSE, reqs |-> <<>>, copies |-> 1]

\* No call has been made on the Bsec yet.  Its sensor answers
\* get_measurement whenever it is asked, as the FakeBmeSensor of the tests
\* does (bsec.rs:735-737).
SubIdle ==
    /\ args = NoArgs
    /\ lastCall = NoCall
    /\ time_stamp = 0
    /\ configuration = <<>>
    /\ measurement_available_after = "Some"

\* ------------------------------------------------- Monitor: shared pieces

\* The Bsec is dropped when start() or the loop returns an error.
DropMonitorBsec ==
    /\ BSEC_IN_USE' = StoreOnDrop(BSEC_IN_USE)
    /\ live' = live \ {MonitorTask}
    /\ taskPc' = [taskPc EXCEPT ![MonitorTask] = "idle"]
    /\ freedByDrop' = TRUE
    /\ drops' = drops + 1
    /\ UNCHANGED <<taskResult, aliveAtCas, casAfterDrop>>

ErrorPcRetry == pc

\* Where `?` leads: out of Monitor::start, or out of the monitoring loop.
ErrorPc == IF phase = "start" THEN "start_failed" ELSE "done_err"

Fail ==
    /\ pc' = ErrorPc
    /\ errors' = errors + 1
    /\ DropMonitorBsec
    /\ UNCHANGED <<subscribed, args, lastCall, time_stamp, configuration,
                   measurement_available_after>>

\* Where Monitor::next_measurement returns to.
ReturnPc == IF phase = "start" THEN "start_channel" ELSE "loop_send"

\* monitor.rs:96  if sleep_duration > 0
ShouldSleep(sleep_duration) == sleep_duration > 0

SaveDueStrict(elapsed) == elapsed > SaveInterval

SaveDueNever(elapsed) == FALSE

\* monitor.rs:79  time.timestamp_ns() - last_state_save >= 60_000_000_000
SaveDue(elapsed) == elapsed >= SaveInterval

CancelCheckPointAnywhere(p) == p \in {"check", "nm_process"}

\* monitor.rs:77  the only place shutdown_requested is polled
CancelCheckPoint(p) == p = "check"

ShutdownNeverReceived(ch) == FALSE

ShutdownReceivedOrClosed(ch) == ch # "empty"

\* monitor.rs:77  shutdown_requested.try_recv() is Ok only for a sent message
ShutdownReceived(ch) == ch = "sent"

\* ----------------------------------------- Monitor::next_measurement

\* monitor.rs:95-99
NmSleep ==
    /\ pc = "nm_begin"
    /\ \E ts \in ClockReads(now) :
        LET sleep_duration == next_measurement - ts IN
        /\ now' = IF ShouldSleep(sleep_duration)
                     THEN SleepEnd(ts, sleep_duration) ELSE ts
        /\ slept' = ShouldSleep(sleep_duration)
    /\ sleepComputed' = TRUE
    /\ pc' = "nm_control"
    /\ UNCHANGED <<lockVars, errors, drops, subVars, next_measurement, engState, measuring, file, phase,
                   duration, startedAt, outputs, current, last_state_save, shutdown,
                   receiverAlive, callerPc, stepped, restoreOrder, iterOpen,
                   autosaved, exitSaves>>

AtControl == pc \in {"nm_control", "nm_control_retry"}

AfterStartUnblocked(result) ==
    IF result = "Ok" \/ result = "WouldBlock" THEN "nm_sleep2" ELSE ErrorPc

\* monitor.rs:100  block!(bsec.start_next_measurement())?: WouldBlock makes
\* the call again, an error leaves, Ok goes on to the sleep
AfterStart(result) ==
    CASE result = "WouldBlock" -> "nm_control_retry"
      [] result = "Ok" -> "nm_sleep2"
      [] OTHER -> ErrorPc

\* bsec.rs:138-142  bsec_sensor_control returns an error
NmControlError ==
    /\ AtControl
    /\ \E ts \in ClockReads(now) : now' = ts
    /\ sleepComputed' = FALSE
    /\ Fail
    /\ UNCHANGED <<ulp_plus_queue, next_measurement, engState, measuring, file, phase,
                   duration, startedAt, outputs, current, last_state_save, shutdown,
                   receiverAlive, callerPc, stepped, restoreOrder, slept,
                   iterOpen, autosaved, exitSaves>>

\* bsec.rs:143-146  trigger_measurement != 1: WouldBlock, and block! of
\* monitor.rs:100 calls start_next_measurement again
NmControlWouldBlock ==
    /\ AtControl
    /\ \E ts \in ClockReads(now) :
        /\ now' = ts
        /\ \E n \in NextCalls(ts) : next_measurement' = n
    /\ sleepComputed' = FALSE
    /\ pc' = AfterStart("WouldBlock")
    /\ UNCHANGED <<lockVars, errors, drops, subVars, engState, measuring, file, phase,
                   duration, startedAt, outputs, current, last_state_save, shutdown,
                   receiverAlive, callerPc, stepped, restoreOrder, slept,
                   iterOpen, autosaved, exitSaves>>

\* bsec.rs:143-151  trigger_measurement = 1 and start_measurement succeeds
NmControlStart ==
    /\ AtControl
    /\ \E ts \in ClockReads(now) :
        /\ now' = ts
        /\ \E n \in NextCalls(ts) : next_measurement' = n
        /\ \E d \in ProfileDurations(ts) : duration' = d
        /\ startedAt' = ts
    /\ sleepComputed' = FALSE
    /\ measuring' = TRUE
    /\ pc' = AfterStart("Ok")
    /\ UNCHANGED <<lockVars, errors, drops, subVars, engState, file, phase,
                   outputs, current, last_state_save, shutdown,
                   receiverAlive, callerPc, stepped, restoreOrder, slept,
                   iterOpen, autosaved, exitSaves>>

\* bsec.rs:147-150  trigger_measurement = 1 and start_measurement fails
NmControlSensorError ==
    /\ AtControl
    /\ \E ts \in ClockReads(now) :
        /\ now' = ts
        /\ \E n \in NextCalls(ts) : next_measurement' = n
    /\ sleepComputed' = FALSE
    /\ Fail
    /\ UNCHANGED <<ulp_plus_queue, engState, measuring, file, phase,
                   duration, startedAt, outputs, current, last_state_save, shutdown,
                   receiverAlive, callerPc, stepped, restoreOrder, slept,
                   iterOpen, autosaved, exitSaves>>

\* monitor.rs:101  time.sleep(duration).await
NmSleepProfile ==
    /\ pc = "nm_sleep2"
    /\ now' = SleepEnd(now, duration)
    /\ pc' = "nm_process"
    /\ UNCHANGED <<lockVars, duration, startedAt, errors, drops, subVars,
                   next_measurement, engState, measuring, file, phase,
                   outputs, current, last_state_save, shutdown,
                   receiverAlive, callerPc, stepped, restoreOrder,
                   sleepComputed, slept, iterOpen, autosaved, exitSaves>>

AtProcess == pc \in {"nm_process", "nm_process_retry"}

\* bsec.rs:153-157  get_measurement is WouldBlock, and block! of
\* monitor.rs:102 calls process_last_measurement again
NmProcessWouldBlock ==
    /\ AtProcess
    /\ \E ts \in ClockReads(now) : now' = ts
    /\ pc' = "nm_process_retry"
    /\ UNCHANGED <<lockVars, errors, drops, subVars, next_measurement, engState, measuring, file, phase,
                   duration, startedAt, outputs, current, last_state_save, shutdown,
                   receiverAlive, callerPc, stepped, restoreOrder,
                   sleepComputed, slept, iterOpen, autosaved, exitSaves>>

\* bsec.rs:153-157  get_measurement fails
NmProcessSensorError ==
    /\ AtProcess
    /\ duration' = 0        \* next_measurement returns: its locals end
    /\ startedAt' = 0
    /\ \E ts \in ClockReads(now) : now' = ts
    /\ Fail
    /\ UNCHANGED <<ulp_plus_queue, next_measurement, engState, measuring, file, phase,
                   outputs, current, last_state_save, shutdown,
                   receiverAlive, callerPc, stepped, restoreOrder,
                   sleepComputed, slept, iterOpen, autosaved, exitSaves>>

\* bsec.rs:180-193  the reading has more inputs than a u8 counts, or
\* bsec_do_steps returns an error
NmProcessStepError ==
    /\ AtProcess
    /\ duration' = 0        \* next_measurement returns: its locals end
    /\ startedAt' = 0
    /\ \E ts \in ClockReads(now) : now' = ts
    /\ measuring' = FALSE
    /\ ulp_plus_queue' = QueueAfterStep(ulp_plus_queue)
    /\ Fail
    /\ UNCHANGED <<next_measurement, engState, file, phase,
                   outputs, current, last_state_save, shutdown,
                   receiverAlive, callerPc, stepped, restoreOrder,
                   sleepComputed, slept, iterOpen, autosaved, exitSaves>>

\* bsec.rs:195-200  the step is done and an output fails its conversion
NmProcessConversionError ==
    /\ AtProcess
    /\ duration' = 0        \* next_measurement returns: its locals end
    /\ startedAt' = 0
    /\ \E ts \in ClockReads(now) : now' = ts
    /\ measuring' = FALSE
    /\ engState' = DoSteps(engState)
    /\ stepped' = TRUE
    /\ ulp_plus_queue' = QueueAfterStep(ulp_plus_queue)
    /\ Fail
    /\ UNCHANGED <<next_measurement, file, phase,
                   outputs, current, last_state_save, shutdown,
                   receiverAlive, callerPc, restoreOrder,
                   sleepComputed, slept, iterOpen, autosaved, exitSaves>>

\* bsec.rs:152-201  the reading is there and the engine step succeeds
NmProcessDone ==
    /\ AtProcess
    /\ duration' = 0        \* next_measurement returns: its locals end
    /\ startedAt' = 0
    /\ \E ts \in ClockReads(now) :
          /\ now' = ts
          /\ outputs' = StepOutputs(DoSteps(engState), ts,
                                    subscribed, ulp_plus_queue)
    /\ measuring' = FALSE
    /\ engState' = DoSteps(engState)
    /\ stepped' = TRUE
    /\ slept' = FALSE
    /\ ulp_plus_queue' = QueueAfterStep(ulp_plus_queue)
    /\ pc' = ReturnPc
    /\ UNCHANGED <<lockVars, errors, drops, subscribed, args, lastCall,
                   time_stamp, configuration,
                   next_measurement, file, phase,
                   current, last_state_save, shutdown,
                   receiverAlive, callerPc, restoreOrder,
                   sleepComputed, iterOpen, autosaved, exitSaves,
                   measurement_available_after>>

\* ------------------------------------------------------- Monitor::start

\* monitor.rs:44-58  the first reading fills the watch channel, the loop is
\* spawned and the Monitor handed to the caller
StartSpawn ==
    /\ pc = "start_channel"
    /\ current' = outputs
    /\ phase' = "loop"
    /\ pc' = "loop_entry"
    /\ callerPc' = "running"
    /\ UNCHANGED <<lockVars, errors, drops, subVars, now, next_measurement, engState, measuring, file,
                   duration, startedAt, outputs, last_state_save, shutdown,
                   receiverAlive, stepped, restoreOrder,
                   sleepComputed, slept, iterOpen, autosaved, exitSaves>>

\* ---------------------------------------------- Monitor::monitoring_loop

\* monitor.rs:71-73  load_state fails
LoopLoadError ==
    /\ pc = "loop_entry"
    /\ \E ts \in ClockReads(now) : now' = ts /\ last_state_save' = ts
    /\ \E r \in LoadResults(file) : ~r.ok
    /\ Fail
    /\ UNCHANGED <<ulp_plus_queue, next_measurement, engState, measuring, file, phase,
                   duration, startedAt, outputs, current, shutdown,
                   receiverAlive, callerPc, stepped, restoreOrder,
                   sleepComputed, slept, iterOpen, autosaved, exitSaves>>

\* monitor.rs:71-75  no state file: cold start
LoopColdStart ==
    /\ pc = "loop_entry"
    /\ \E ts \in ClockReads(now) : now' = ts /\ last_state_save' = ts
    /\ \E r \in LoadResults(file) : r.ok /\ ~r.some
    /\ pc' = "check"
    /\ UNCHANGED <<lockVars, errors, drops, subVars, next_measurement, engState, measuring, file, phase,
                   duration, startedAt, outputs, current, shutdown,
                   receiverAlive, callerPc, stepped, restoreOrder,
                   sleepComputed, slept, iterOpen, autosaved, exitSaves>>

\* monitor.rs:71-75  the loaded blob is restored with set_state
LoopRestore ==
    /\ pc = "loop_entry"
    /\ \E ts \in ClockReads(now) : now' = ts /\ last_state_save' = ts
    /\ \E r \in LoadResults(file) :
        /\ r.ok /\ r.some
        /\ ValidBlob(r.bytes)
        /\ engState' = DecodeBlob(r.bytes)
    /\ restoreOrder' = IF stepped THEN "step_first" ELSE "restore_first"
    /\ pc' = "check"
    /\ UNCHANGED <<lockVars, errors, drops, subVars, next_measurement, measuring, file, phase,
                   duration, startedAt, outputs, current, shutdown,
                   receiverAlive, callerPc, stepped,
                   sleepComputed, slept, iterOpen, autosaved, exitSaves>>

\* monitor.rs:74  set_state returns an error
LoopRestoreError ==
    /\ pc = "loop_entry"
    /\ \E ts \in ClockReads(now) : now' = ts /\ last_state_save' = ts
    /\ \E r \in LoadResults(file) : r.ok /\ r.some
    /\ Fail
    /\ UNCHANGED <<ulp_plus_queue, next_measurement, engState, measuring, file, phase,
                   duration, startedAt, outputs, current, shutdown,
                   receiverAlive, callerPc, stepped, restoreOrder,
                   sleepComputed, slept, iterOpen, autosaved, exitSaves>>

\* monitor.rs:77  try_recv() is Ok: the loop is left
LoopExit ==
    /\ phase = "loop"
    /\ CancelCheckPoint(pc)
    /\ ShutdownReceived(shutdown)
    /\ pc' = "final_save"
    /\ UNCHANGED <<lockVars, errors, drops, subVars, now, next_measurement, engState, measuring, file,
                   phase, duration, startedAt, outputs, current, last_state_save, shutdown,
                   receiverAlive, callerPc, stepped, restoreOrder,
                   sleepComputed, slept, iterOpen, autosaved, exitSaves>>

\* monitor.rs:77  try_recv() is an Err: the next iteration begins
LoopContinue ==
    /\ phase = "loop"
    /\ pc = "check"
    /\ ~ShutdownReceived(shutdown)
    /\ pc' = "nm_begin"
    /\ iterOpen' = TRUE
    /\ UNCHANGED <<lockVars, errors, drops, subVars, now, next_measurement, engState, measuring, file,
                   phase, duration, startedAt, outputs, current, last_state_save, shutdown,
                   receiverAlive, callerPc, stepped, restoreOrder,
                   sleepComputed, slept, autosaved, exitSaves>>

\* monitor.rs:78  set_current.send(..)
LoopSend ==
    /\ pc = "loop_send"
    /\ receiverAlive
    /\ current' = outputs
    /\ iterOpen' = FALSE
    /\ pc' = "save_check"
    /\ UNCHANGED <<lockVars, errors, drops, subVars, now, next_measurement, engState, measuring, file,
                   phase, duration, startedAt, outputs, last_state_save, shutdown,
                   receiverAlive, callerPc, stepped, restoreOrder,
                   sleepComputed, slept, autosaved, exitSaves>>

\* monitor.rs:78  send fails: every receiver is gone
LoopSendError ==
    /\ pc = "loop_send"
    /\ ~receiverAlive
    /\ Fail
    /\ UNCHANGED <<ulp_plus_queue, now, next_measurement, engState, measuring, file,
                   phase, duration, startedAt, outputs, current, last_state_save, shutdown,
                   receiverAlive, callerPc, stepped, restoreOrder,
                   sleepComputed, slept, iterOpen, autosaved, exitSaves>>

\* monitor.rs:79
LoopSaveCheck ==
    /\ pc = "save_check"
    /\ \E ts \in ClockReads(now) :
        /\ now' = ts
        /\ pc' = IF SaveDue(ts - last_state_save) THEN "autosave" ELSE "yield"
    /\ UNCHANGED <<lockVars, errors, drops, subVars, next_measurement, engState, measuring, file,
                   phase, duration, startedAt, outputs, current, last_state_save, shutdown,
                   receiverAlive, callerPc, stepped, restoreOrder,
                   sleepComputed, slept, iterOpen, autosaved, exitSaves>>

\* monitor.rs:80-81  get_state fails
LoopAutosaveStateError ==
    /\ pc = "autosave"
    /\ \E ts \in ClockReads(now) : now' = ts /\ last_state_save' = ts
    /\ Fail
    /\ UNCHANGED <<ulp_plus_queue, next_measurement, engState, measuring, file,
                   phase, duration, startedAt, outputs, current, shutdown,
                   receiverAlive, callerPc, stepped, restoreOrder,
                   sleepComputed, slept, iterOpen, autosaved, exitSaves>>

\* monitor.rs:80-81  save_state fails
LoopAutosaveError ==
    /\ pc = "autosave"
    /\ \E ts \in ClockReads(now) : now' = ts /\ last_state_save' = ts
    /\ \E r \in SaveResults(file, GetStateBlob(engState)) :
        /\ ~r.ok
        /\ file' = r.file
    /\ Fail
    /\ UNCHANGED <<ulp_plus_queue, next_measurement, engState, measuring,
                   phase, duration, startedAt, outputs, current, shutdown,
                   receiverAlive, callerPc, stepped, restoreOrder,
                   sleepComputed, slept, iterOpen, autosaved, exitSaves>>

\* monitor.rs:80-81  the periodic snapshot
LoopAutosave ==
    /\ pc = "autosave"
    /\ \E ts \in ClockReads(now) : now' = ts /\ last_state_save' = ts
    /\ \E r \in SaveResults(file, GetStateBlob(engState)) :
        /\ r.ok
        /\ file' = r.file
    /\ autosaved' = TRUE
    /\ pc' = "yield"
    /\ UNCHANGED <<lockVars, errors, drops, subVars, next_measurement, engState, measuring,
                   phase, duration, startedAt, outputs, current, shutdown,
                   receiverAlive, callerPc, stepped, restoreOrder,
                   sleepComputed, slept, iterOpen, exitSaves>>

LoopYieldNoCheck ==
    /\ pc = "yield"
    /\ pc' = "nm_begin"
    /\ iterOpen' = TRUE
    /\ UNCHANGED <<lockVars, errors, drops, subVars, now, next_measurement, engState, measuring, file,
                   phase, duration, startedAt, outputs, current, last_state_save, shutdown,
                   receiverAlive, callerPc, stepped, restoreOrder,
                   sleepComputed, slept, autosaved, exitSaves>>

\* monitor.rs:83  tokio::task::yield_now().await
LoopYield ==
    /\ pc = "yield"
    /\ pc' = "check"
    /\ UNCHANGED <<lockVars, errors, drops, subVars, now, next_measurement, engState, measuring, file,
                   phase, duration, startedAt, outputs, current, last_state_save, shutdown,
                   receiverAlive, callerPc, stepped, restoreOrder,
                   sleepComputed, slept, iterOpen, autosaved, exitSaves>>

\* monitor.rs:86  get_state fails after the loop
LoopFinalStateError ==
    /\ pc = "final_save"
    /\ Fail
    /\ UNCHANGED <<ulp_plus_queue, now, next_measurement, engState, measuring, file,
                   phase, duration, startedAt, outputs, current, last_state_save, shutdown,
                   receiverAlive, callerPc, stepped, restoreOrder,
                   sleepComputed, slept, iterOpen, autosaved, exitSaves>>

\* monitor.rs:86  save_state fails after the loop
LoopFinalSaveError ==
    /\ pc = "final_save"
    /\ \E r \in SaveResults(file, GetStateBlob(engState)) :
        /\ ~r.ok
        /\ file' = r.file
    /\ exitSaves' = exitSaves + 1
    /\ Fail
    /\ UNCHANGED <<ulp_plus_queue, now, next_measurement, engState, measuring,
                   phase, duration, startedAt, outputs, current, last_state_save, shutdown,
                   receiverAlive, callerPc, stepped, restoreOrder,
                   sleepComputed, slept, iterOpen, autosaved>>

LoopFinalSaveSkipped ==
    /\ pc = "final_save"
    /\ exitSaves' = exitSaves + 1
    /\ pc' = "done_ok"
    /\ UNCHANGED <<lockVars, errors, drops, subVars, now, next_measurement, engState, measuring, file,
                   phase, duration, startedAt, outputs, current, last_state_save, shutdown,
                   receiverAlive, callerPc, stepped, restoreOrder,
                   sleepComputed, slept, iterOpen, autosaved>>

\* monitor.rs:86-88  the final snapshot; the Bsec and the persistence handle
\* are the task's result
LoopFinalSave ==
    /\ pc = "final_save"
    /\ \E r \in SaveResults(file, GetStateBlob(engState)) :
        /\ r.ok
        /\ file' = r.file
    /\ exitSaves' = exitSaves + 1
    /\ pc' = "done_ok"
    /\ UNCHANGED <<lockVars, errors, drops, subVars, now, next_measurement, engState, measuring,
                   phase, duration, startedAt, outputs, current, last_state_save, shutdown,
                   receiverAlive, callerPc, stepped, restoreOrder,
                   sleepComputed, slept, iterOpen, autosaved>>

\* --------------------------------------------- the caller and the world

\* The places where the monitoring task is suspended and other tasks run:
\* before its first poll, in the two sleeps, in yield_now, and when done.
Suspended == pc \in {"loop_entry", "nm_control", "nm_process", "check",
                     "done_ok", "done_err"}

\* monitor.rs:105-106  Monitor::stop sends the shutdown request
CallerStop ==
    /\ callerPc = "running"
    /\ Suspended
    /\ shutdown' = "sent"
    /\ callerPc' = "stopping"
    /\ UNCHANGED <<lockVars, errors, drops, subVars, now, next_measurement, engState, measuring, file,
                   pc, phase, duration, startedAt, outputs, current, last_state_save,
                   receiverAlive, stepped, restoreOrder,
                   sleepComputed, slept, iterOpen, autosaved, exitSaves>>

\* monitor.rs:107  self.join_handle.await
CallerJoin ==
    /\ callerPc = "stopping"
    /\ pc \in {"done_ok", "done_err"}
    /\ callerPc' = "stopped"
    /\ UNCHANGED <<lockVars, errors, drops, subVars, now, next_measurement, engState, measuring, file,
                   pc, phase, duration, startedAt, outputs, current, last_state_save,
                   shutdown, receiverAlive, stepped, restoreOrder,
                   sleepComputed, slept, iterOpen, autosaved, exitSaves>>

\* monitor.rs:223  `let (bsec, _) = monitor.stop().await.unwrap()`: the
\* caller owns the returned Bsec and drops it when it is done with it
CallerDropBsec ==
    /\ callerPc = "stopped"
    /\ pc = "done_ok"
    /\ callerPc' = "released"
    /\ DropMonitorBsec
    /\ UNCHANGED <<now, next_measurement, engState, measuring, file,
                   pc, phase, duration, startedAt, outputs, current,
                   last_state_save, shutdown, receiverAlive, stepped,
                   restoreOrder, sleepComputed, slept, iterOpen, autosaved,
                   exitSaves, errors, subVars>>

\* monitor.rs:29-32  the Monitor is dropped without stop(): the sender of
\* the shutdown channel goes without a message, the task is detached, and
\* `current` goes too unless a clone of the receiver is kept
CallerDrop ==
    /\ callerPc = "running"
    /\ Suspended
    /\ shutdown' = "closed"
    /\ callerPc' = "dropped"
    /\ \E kept \in BOOLEAN : receiverAlive' = kept
    /\ UNCHANGED <<lockVars, errors, drops, subVars, now, next_measurement, engState, measuring, file,
                   pc, phase, duration, startedAt, outputs, current, last_state_save,
                   stepped, restoreOrder,
                   sleepComputed, slept, iterOpen, autosaved, exitSaves>>

\* monitor.rs:222  the state behind the persistence handle is replaced from
\* outside while the monitor runs
TamperFile ==
    /\ callerPc = "running"
    /\ Suspended
    /\ \E f \in FileValues : f # file /\ file' = f
    /\ UNCHANGED <<lockVars, errors, drops, subVars, now, next_measurement, engState, measuring,
                   pc, phase, duration, startedAt, outputs, current, last_state_save,
                   shutdown, receiverAlive, callerPc, stepped, restoreOrder,
                   sleepComputed, slept, iterOpen, autosaved, exitSaves>>

\* monitor.rs:248-251  the clock advances while the monitoring task is
\* suspended (the test's time.sleep(1 s); a sleep that lasts longer)
TimePasses ==
    /\ pc \in {"loop_entry", "nm_control", "nm_process", "check"}
    /\ now < MaxTime
    /\ now' = now + 1
    /\ UNCHANGED <<lockVars, errors, drops, subVars, next_measurement, engState, measuring, file,
                   pc, phase, duration, startedAt, outputs, current, last_state_save,
                   shutdown, receiverAlive, callerPc, stepped, restoreOrder,
                   sleepComputed, slept, iterOpen, autosaved, exitSaves>>

\* The caller has built the Bsec (Bsec::init stores the clock reading as
\* next_measurement) and calls Monitor::start.
StartCalled ==
    /\ BSEC_IN_USE = TRUE
    /\ live = {MonitorTask}
    /\ taskPc = [t \in Tasks |-> IF t = MonitorTask THEN "holding" ELSE "idle"]
    /\ taskResult = [t \in Tasks |-> IF t = MonitorTask THEN "Ok" ELSE "none"]
    /\ aliveAtCas = [t \in Tasks |-> FALSE]
    /\ casAfterDrop = [t \in Tasks |-> FALSE]
    /\ freedByDrop = FALSE
    /\ now = 0
    /\ next_measurement = 0
    /\ engState = 0
    /\ measuring = FALSE
    /\ file \in FileValues
    /\ pc = "nm_begin"
    /\ phase = "start"
    /\ duration = 0
    /\ startedAt = 0
    /\ outputs = <<>>
    /\ current = <<>>
    /\ last_state_save = 0
    /\ shutdown = "empty"
    /\ receiverAlive = TRUE
    /\ callerPc = "starting"
    /\ stepped = FALSE
    /\ restoreOrder = "none"
    /\ sleepComputed = FALSE
    /\ slept = FALSE
    /\ iterOpen = FALSE
    /\ autosaved = FALSE
    /\ exitSaves = 0
    /\ errors = 0
    /\ drops = 0
    /\ ulp_plus_queue = {}
    /\ SubIdle

\* monitor.rs:148-160  the Bsec has a subscription for every sensor
Init ==
    /\ StartCalled
    /\ subscribed = Sensors

\* monitor.rs:170-175  the Bsec of smoke_test: RawTemperature alone is
\* subscribed, at the Continuous rate
ScenarioInit ==
    /\ StartCalled
    /\ subscribed = {RawTemperature}

NextMeasurement ==
    \/ NmSleep
    \/ NmControlError
    \/ NmControlWouldBlock
    \/ NmControlStart
    \/ NmControlSensorError
    \/ NmSleepProfile
    \/ NmProcessWouldBlock
    \/ NmProcessSensorError
    \/ NmProcessStepError
    \/ NmProcessConversionError
    \/ NmProcessDone

MonitoringLoop ==
    \/ LoopLoadError
    \/ LoopColdStart
    \/ LoopRestore
    \/ LoopRestoreError
    \/ LoopExit
    \/ LoopContinue
    \/ LoopSend
    \/ LoopSendError
    \/ LoopSaveCheck
    \/ LoopAutosaveStateError
    \/ LoopAutosaveError
    \/ LoopAutosave
    \/ LoopYield
    \/ LoopFinalStateError
    \/ LoopFinalSaveError
    \/ LoopFinalSave

Next ==
    \/ NextMeasurement
    \/ StartSpawn
    \/ MonitoringLoop
    \/ CallerStop
    \/ CallerJoin
    \/ CallerDropBsec
    \/ CallerDrop
    \/ TamperFile
    \/ TimePasses

Spec == Init /\ [][Next]_vars

\* A step that takes start() or the monitoring task forward: every step of
\* theirs but the two WouldBlock answers, which only repeat a call.
MonitorProgress ==
    \/ NmSleep
    \/ NmControlError
    \/ NmControlStart
    \/ NmControlSensorError
    \/ NmSleepProfile
    \/ NmProcessSensorError
    \/ NmProcessStepError
    \/ NmProcessConversionError
    \/ NmProcessDone
    \/ StartSpawn
    \/ MonitoringLoop

\* The runtime keeps polling a task that can run (the local task set of
\* spawn_local, monitor.rs:47, driven by the caller's await), the engine
\* does not answer WouldBlock for ever and neither does the sensor, and a
\* finished task wakes the join handle's awaiter.
ScenarioSpec == ScenarioInit /\ [][Next]_vars

FairSpec ==
    /\ Init
    /\ [][Next]_vars
    /\ WF_vars(MonitorProgress)
    /\ WF_vars(CallerJoin)

\* ------------------------------------------------ LockSpec

\* LockSpec runs no Monitor: its variables rest.
MonitorRests ==
    /\ now = 0
    /\ next_measurement = 0
    /\ measuring = FALSE
    /\ file = NotFound
    /\ pc = "none"
    /\ phase = "none"
    /\ duration = 0
    /\ startedAt = 0
    /\ outputs = <<>>
    /\ current = <<>>
    /\ last_state_save = 0
    /\ shutdown = "empty"
    /\ receiverAlive = FALSE
    /\ callerPc = "none"
    /\ stepped = FALSE
    /\ restoreOrder = "none"
    /\ sleepComputed = FALSE
    /\ slept = FALSE
    /\ iterOpen = FALSE
    /\ autosaved = FALSE
    /\ exitSaves = 0
    /\ errors = 0
    /\ drops = 0

\* The engine is as bsec_init leaves it.
MonitorIdle ==
    /\ MonitorRests
    /\ engState = 0

LockInit ==
    /\ BSEC_IN_USE = FALSE
    /\ live = {}
    /\ taskPc = [t \in Tasks |-> "idle"]
    /\ taskResult = [t \in Tasks |-> "none"]
    /\ aliveAtCas = [t \in Tasks |-> FALSE]
    /\ casAfterDrop = [t \in Tasks |-> FALSE]
    /\ freedByDrop = FALSE
    /\ MonitorIdle
    /\ subscribed = {}
    /\ ulp_plus_queue = {}
    /\ SubIdle

LockNext ==
    \E t \in Tasks :
        \/ InitCas(t)
        \/ InitEngine(t)
        \/ DropBsec(t)

LockSpec == LockInit /\ [][LockNext]_vars

\* ------------------------------------------------ AdapterSpec: the Bsec
\* methods called one at a time on a constructed Bsec (bsec.rs:78-201)

\* Return codes of the engine calls bsec_update_subscription,
\* bsec_sensor_control and bsec_do_steps.
BsecReturns == {"BSEC_OK", "BSEC_E"}

SetsAfterUpdateAlways(sets, l, rc) == ApplyRequests(sets, l)

\* bsec.rs:89-114  `?` on the engine's answer comes before the loop over the
\* requests
SetsAfterUpdate(sets, l, rc) ==
    IF rc = "BSEC_OK" THEN ApplyRequests(sets, l) ELSE sets

\* The caller has a request list at hand and calls update_subscription.
CallUpdateSubscription ==
    /\ ~args.pending
    /\ lastCall = NoCall
    /\ \E l \in RequestLists :
        args' = [pending |-> TRUE, reqs |-> l.reqs, copies |-> l.copies]
    /\ UNCHANGED <<lockVars, monVars, subscribed, ulp_plus_queue, lastCall,
                   time_stamp, configuration, measurement_available_after>>

\* The caller has looked at the result of its latest call and goes on; after
\* a panic nothing goes on.
TakeResult ==
    /\ ~args.pending
    /\ lastCall # NoCall
    /\ lastCall.result # "panic"
    /\ lastCall' = NoCall
    /\ UNCHANGED <<lockVars, monVars, subscribed, ulp_plus_queue, args,
                   time_stamp, configuration, measurement_available_after>>

\* bsec.rs:78-121  Bsec::update_subscription
UpdateSubscription ==
    /\ args.pending
    /\ args' = NoArgs
    /\ LET sets == [subscribed |-> subscribed, ulp_plus_queue |-> ulp_plus_queue]
           call == [NoCall EXCEPT !.op = "update_subscription",
                                  !.len = ListLen(args),
                                  !.rates = RatesOf(args)]
       IN
       IF ~TryIntoU8(ListLen(args))
          THEN /\ lastCall' = [call EXCEPT !.result = "ArgumentListTooLong"]
               /\ UNCHANGED <<subscribed, ulp_plus_queue>>
          ELSE \E rc \in BsecReturns :
                /\ LET after == SetsAfterUpdate(sets, args, rc) IN
                    /\ subscribed' = after.subscribed
                    /\ ulp_plus_queue' = after.ulp_plus_queue
                /\ IF rc = "BSEC_OK"
                      THEN \E ids \in EngineSettings :
                             lastCall' =
                               [call EXCEPT
                                  !.result = "Ok",
                                  !.engineCalled = TRUE,
                                  !.raw = ids,
                                  !.value = FilterMapSettings(
                                               SettingsArray(ids), Len(ids), 1)]
                      ELSE lastCall' = [call EXCEPT !.result = "BsecError",
                                                    !.engineCalled = TRUE]
    /\ UNCHANGED <<lockVars, monVars, time_stamp, configuration,
                   measurement_available_after>>

\* Answers of BmeSensor::get_measurement; "OkTooLong" is a reading of more
\* inputs than a u8 counts (bsec.rs:184-187).
GetMeasurementReturns == {"WouldBlock", "BmeSensorError", "Ok", "OkTooLong"}

\* The call has run bsec_do_steps and the engine has made the step: it has
\* returned BSEC_OK (bsec.rs:181-193).
StepMade(call) ==
    /\ call.op = "process_last_measurement"
    /\ call.engineCalled
    /\ call.result \in {"Ok", "ConversionError"}

MapBmeErrorAll(e) == "BmeSensorError"

\* bsec.rs:157  .map_err(|e| e.map(Error::BmeSensorError)): nb::Error::map
\* wraps the error of Other and keeps WouldBlock
MapBmeError(e) ==
    IF e = "WouldBlock" THEN "WouldBlock" ELSE "BmeSensorError"

TimeStampOfNextCall(clock, next_call) == next_call

\* bsec.rs:153  let time_stamp = self.time.timestamp_ns(): the clock as
\* process_last_measurement finds it, not the time the engine asked for
TimeStampOf(clock, next_call) == clock

GetMeasurementPanicsNever(available) == FALSE

\* bme680.rs:83-84  None => panic!(..)
GetMeasurementPanics(available) == available = "None"

\* Answers of get_measurement on a sensor in the given state: the BME680
\* that has started no measurement panics.
GetMeasurementAnswers(available) ==
    IF GetMeasurementPanics(available) THEN {"panic"}
                                       ELSE GetMeasurementReturns

\* bsec.rs:152-201  Bsec::process_last_measurement, called on its own
ProcessLastMeasurement ==
    /\ ~args.pending
    /\ lastCall = NoCall
    /\ \E m \in GetMeasurementAnswers(measurement_available_after) :
        LET buffer == BufferSensors(subscribed, ulp_plus_queue)
            call == [NoCall EXCEPT !.op = "process_last_measurement",
                                   !.stampBefore = time_stamp,
                                   !.reading = m]
        IN
        IF m = "panic"
           THEN /\ lastCall' = [call EXCEPT !.result = "panic"]
                /\ UNCHANGED <<subscribed, ulp_plus_queue, measuring>>
        ELSE
        IF m \in {"WouldBlock", "BmeSensorError"}
           THEN /\ lastCall' = [call EXCEPT !.result = MapBmeError(m)]
                /\ UNCHANGED <<subscribed, ulp_plus_queue, measuring>>
           ELSE /\ LET after == SetsAfterStep(
                                   [subscribed |-> subscribed,
                                    ulp_plus_queue |-> ulp_plus_queue])
                   IN  /\ subscribed' = after.subscribed
                       /\ ulp_plus_queue' = after.ulp_plus_queue
                /\ measuring' = FALSE
                /\ IF m = "OkTooLong"
                      THEN lastCall' =
                             [call EXCEPT !.result = "ArgumentListTooLong",
                                          !.buffer = buffer]
                      ELSE \E rc \in BsecReturns :
                            IF rc # "BSEC_OK"
                               THEN lastCall' =
                                      [call EXCEPT !.result = "BsecError",
                                                   !.engineCalled = TRUE,
                                                   !.buffer = buffer]
                               ELSE \E raw \in EngineOutputs(Cardinality(buffer)) :
                                     LET c == CollectOutputs(raw) IN
                                     lastCall' =
                                       [call EXCEPT
                                          !.result = IF c.ok
                                                        THEN "Ok"
                                                        ELSE "ConversionError",
                                          !.engineCalled = TRUE,
                                          !.buffer = buffer,
                                          !.raw = raw,
                                          !.value = c.value]
    /\ time_stamp' = IF StepMade(lastCall')
                        THEN TimeStampOf(now, next_measurement)
                        ELSE time_stamp
    /\ UNCHANGED <<lockVars, now, next_measurement, engState, file, pc, phase,
                   duration, startedAt, outputs, current, last_state_save, shutdown,
                   receiverAlive, callerPc, stepped, restoreOrder,
                   sleepComputed, slept, iterOpen, autosaved, exitSaves,
                   errors, drops, args, configuration,
                   measurement_available_after>>

\* Answers of BmeSensor::start_measurement: an error, or a profile duration.
StartMeasurementReturns ==
    {[ok |-> FALSE, duration |-> 0]}
        \cup {[ok |-> TRUE, duration |-> d] : d \in 0..MaxDuration}

\* bme680.rs:68-79  Dev::start_measurement sets measurement_available_after
\* once the sensor has taken the settings and the mode; an error returns
\* before
AvailableAfterStart(available, r) == IF r.ok THEN "Some" ELSE available

StoredNextCallIfTriggered(stored, d) ==
    IF d.trigger_measurement = 1 THEN d.next_call ELSE stored

\* bsec.rs:143  self.next_measurement = bme_settings.next_call, before the
\* directive's trigger_measurement is looked at
StoredNextCall(stored, d) == d.next_call

\* bsec.rs:126-151  Bsec::start_next_measurement, called on its own
StartNextMeasurement ==
    /\ ~args.pending
    /\ lastCall = NoCall
    /\ \E rc \in BsecReturns, d \in Directives, r \in StartMeasurementReturns :
        LET call == [NoCall EXCEPT !.op = "start_next_measurement"] IN
        IF rc # "BSEC_OK"
           THEN /\ lastCall' = [call EXCEPT !.result = "BsecError"]
                /\ UNCHANGED <<next_measurement, measuring,
                               measurement_available_after>>
           ELSE /\ next_measurement' = StoredNextCall(next_measurement, d)
                /\ IF ~Triggered(d)
                      THEN /\ lastCall' = [call EXCEPT !.result = "WouldBlock",
                                                       !.directive = d]
                           /\ measuring' = measuring
                           /\ UNCHANGED measurement_available_after
                      ELSE /\ lastCall' =
                                [call EXCEPT
                                   !.directive = d,
                                   !.starts = <<[settings |-> d.settings,
                                                  answer |-> r]>>,
                                   !.result = IF r.ok THEN "Ok"
                                                      ELSE "BmeSensorError",
                                   !.value = IF r.ok THEN <<r.duration>>
                                                     ELSE <<>>]
                           /\ measuring' = (r.ok \/ measuring)
                           /\ measurement_available_after' =
                                AvailableAfterStart(
                                    measurement_available_after, r)
    /\ UNCHANGED <<lockVars, now, engState, file, pc, phase,
                   duration, startedAt, outputs, current, last_state_save, shutdown,
                   receiverAlive, callerPc, stepped, restoreOrder,
                   sleepComputed, slept, iterOpen, autosaved, exitSaves,
                   errors, drops, subscribed, ulp_plus_queue, args,
                   time_stamp, configuration>>

\* A task holds the one Bsec.
LockHeld ==
    /\ BSEC_IN_USE = TRUE
    /\ live = {MonitorTask}
    /\ taskPc = [t \in Tasks |-> IF t = MonitorTask THEN "holding" ELSE "idle"]
    /\ taskResult = [t \in Tasks |-> IF t = MonitorTask THEN "Ok" ELSE "none"]
    /\ aliveAtCas = [t \in Tasks |-> FALSE]
    /\ casAfterDrop = [t \in Tasks |-> FALSE]
    /\ freedByDrop = FALSE

\* bsec.rs:66-72  a Bsec as Bsec::init builds it: nothing subscribed
SubscriptionInit ==
    /\ LockHeld
    /\ MonitorIdle
    /\ subscribed = {}
    /\ ulp_plus_queue = {}
    /\ SubIdle

SubscriptionNext ==
    \/ CallUpdateSubscription
    \/ UpdateSubscription
    \/ ProcessLastMeasurement
    \/ TakeResult

SubscriptionSpec == SubscriptionInit /\ [][SubscriptionNext]_vars

\* A Bsec with some subscription made, before its first measurement.
MeasurementInit ==
    /\ LockHeld
    /\ MonitorIdle
    /\ subscribed \in SUBSET Sensors
    /\ ulp_plus_queue = {}
    /\ SubIdle

MeasurementNext ==
    \/ StartNextMeasurement
    \/ ProcessLastMeasurement
    \/ TakeResult

MeasurementSpec == MeasurementInit /\ [][MeasurementNext]_vars

\* bsec.rs:751-754  time passes between two calls on the Bsec
\* (FakeTime::advance_by)
ClockAdvances ==
    /\ pc = "none"
    /\ now < MaxTime
    /\ now' = now + 1
    /\ UNCHANGED <<lockVars, subVars, next_measurement, engState, measuring,
                   file, pc, phase, duration, startedAt, outputs, current,
                   last_state_save, shutdown, receiverAlive, callerPc,
                   stepped, restoreOrder, sleepComputed, slept, iterOpen,
                   autosaved, exitSaves, errors, drops>>

\* The Bsec methods of a measurement called one at a time while the clock
\* runs.
ClockedNext ==
    \/ StartNextMeasurement
    \/ ProcessLastMeasurement
    \/ TakeResult
    \/ ClockAdvances

ClockedSpec == MeasurementInit /\ [][ClockedNext]_vars

\* ------------------------------------------------ StateFileSpec: the
\* methods of StateFile called one after another (persistance.rs:29-50)

\* The byte values the model tells apart.
Bytes == {0, 1, 2}

\* The blobs a caller may hand to save_state.
Blobs == UNION {[1..n -> Bytes] : n \in 0..MaxBlobLen}

\* persistance.rs:32-44  StateFile::load_state
LoadState ==
    /\ \E o \in OpenResults(file), r \in ReadResults(file) :
        LET res == LoadStateResult(o, r) IN
        lastCall' =
            [NoCall EXCEPT
                !.op = "load_state",
                !.io = IF o = "Ok"
                          THEN <<o, IF r.ok THEN "Ok" ELSE "ReadError">>
                          ELSE <<o>>,
                !.result = IF res.ok THEN "Ok" ELSE "IoError",
                !.value = IF res.ok /\ res.some THEN <<res.bytes>> ELSE <<>>]
    /\ UNCHANGED <<lockVars, monVars, subscribed, ulp_plus_queue, args,
                   time_stamp, configuration, measurement_available_after>>

\* persistance.rs:46-49  StateFile::save_state
SaveState ==
    /\ \E b \in Blobs :
        \E r \in SaveResults(file, b) :
            /\ file' = r.file
            /\ lastCall' = [NoCall EXCEPT
                               !.op = "save_state",
                               !.raw = b,
                               !.io = <<r.io>>,
                               !.result = IF r.ok THEN "Ok" ELSE "IoError"]
    /\ UNCHANGED <<lockVars, subscribed, ulp_plus_queue, args, time_stamp,
                   configuration, now, next_measurement, engState, measuring,
                   pc, phase, duration, startedAt, outputs, current,
                   last_state_save, shutdown, receiverAlive, callerPc,
                   stepped, restoreOrder, sleepComputed, slept, iterOpen,
                   autosaved, exitSaves, errors, drops,
                   measurement_available_after>>

\* persistance.rs:59-62  a StateFile on a path where no file is
StateFileInit == LockInit

StateFileNext ==
    \/ LoadState
    \/ SaveState

StateFileSpec == StateFileInit /\ [][StateFileNext]_vars

\* ------------------------------------------------ BlobSpec: the state and
\* configuration methods of a Bsec called one after another
\* (bsec.rs:203-264)

\* bsec.rs:203-219  Bsec::get_state
GetState ==
    /\ \E rc \in BsecReturns :
        lastCall' = [NoCall EXCEPT
                        !.op = "get_state",
                        !.follows = lastCall.op,
                        !.engineCalled = TRUE,
                        !.result = IF rc = "BSEC_OK" THEN "Ok" ELSE "BsecError",
                        !.value = IF rc = "BSEC_OK" THEN GetStateBlob(engState)
                                                   ELSE <<>>]
    /\ UNCHANGED <<lockVars, monVars, subscribed, ulp_plus_queue, args,
                   time_stamp, configuration, measurement_available_after>>

\* bsec.rs:221-233  Bsec::set_state: the engine takes the state of a blob it
\* accepts
SetState ==
    /\ \E b \in Blobs :
        /\ lastCall' = [NoCall EXCEPT
                           !.op = "set_state",
                           !.follows = lastCall.op,
                           !.engineCalled = TRUE,
                           !.raw = b,
                           !.len = Len(b),
                           !.result = IF ValidBlob(b) THEN "Ok"
                                                      ELSE "BsecError"]
        /\ engState' = IF ValidBlob(b) THEN DecodeBlob(b) ELSE engState
    /\ UNCHANGED <<lockVars, subscribed, ulp_plus_queue, args, time_stamp,
                   configuration, now, next_measurement, measuring, file,
                   pc, phase, duration, startedAt, outputs, current,
                   last_state_save, shutdown, receiverAlive, callerPc,
                   stepped, restoreOrder, sleepComputed, slept, iterOpen,
                   autosaved, exitSaves, errors, drops,
                   measurement_available_after>>

\* bsec.rs:234-250  Bsec::get_configuration
GetConfigurationCall ==
    /\ \E rc \in BsecReturns :
        lastCall' = [NoCall EXCEPT
                        !.op = "get_configuration",
                        !.follows = lastCall.op,
                        !.engineCalled = TRUE,
                        !.result = IF rc = "BSEC_OK" THEN "Ok" ELSE "BsecError",
                        !.value = IF rc = "BSEC_OK"
                                     THEN GetConfiguration(configuration)
                                     ELSE <<>>]
    /\ UNCHANGED <<lockVars, monVars, subscribed, ulp_plus_queue, args,
                   time_stamp, configuration, measurement_available_after>>

\* bsec.rs:252-264  Bsec::set_configuration: the engine works with the
\* configuration of a blob it accepts
SetConfiguration ==
    /\ \E b \in Blobs :
        /\ lastCall' = [NoCall EXCEPT
                           !.op = "set_configuration",
                           !.follows = lastCall.op,
                           !.engineCalled = TRUE,
                           !.raw = b,
                           !.len = Len(b),
                           !.result = IF ValidConfiguration(b)
                                         THEN "Ok" ELSE "BsecError"]
        /\ configuration' = IF ValidConfiguration(b) THEN b
                                                     ELSE configuration
    /\ UNCHANGED <<lockVars, monVars, subscribed, ulp_plus_queue, args,
                   time_stamp, measurement_available_after>>

\* bsec.rs:292-297, 61-76  the caller has taken the state of the Bsec, drops
\* it and builds a new one: bsec_init sets the engine up anew.  The caller
\* keeps the blob.
NewInstance ==
    /\ lastCall.op = "get_state"
    /\ lastCall.result = "Ok"
    /\ engState # 0 \/ configuration # <<>>
    /\ engState' = 0
    /\ configuration' = <<>>
    /\ UNCHANGED <<lockVars, subscribed, ulp_plus_queue, args, time_stamp,
                   lastCall, now, next_measurement, measuring, file,
                   pc, phase, duration, startedAt, outputs, current,
                   last_state_save, shutdown, receiverAlive, callerPc,
                   stepped, restoreOrder, sleepComputed, slept, iterOpen,
                   autosaved, exitSaves, errors, drops,
                   measurement_available_after>>

\* A Bsec whose engine has made any number of steps.
BlobInit ==
    /\ LockHeld
    /\ MonitorRests
    /\ engState \in EngStates
    /\ subscribed = {}
    /\ ulp_plus_queue = {}
    /\ SubIdle

BlobNext ==
    \/ GetState
    \/ SetState
    \/ GetConfigurationCall
    \/ SetConfiguration
    \/ NewInstance

BlobSpec == BlobInit /\ [][BlobNext]_vars

\* ------------------------------------------------ AdapterSpec: every
\* method of a Bsec, in any order (bsec.rs:78-272)

\* bsec.rs:266-271  Bsec::reset_output: the wire code of the sensor goes to
\* bsec_reset_output and the engine's answer comes back
ResetOutput ==
    /\ ~args.pending
    /\ lastCall = NoCall
    /\ \E sensor \in Sensors, rc \in BsecReturns :
        lastCall' = [NoCall EXCEPT
                        !.op = "reset_output",
                        !.engineCalled = TRUE,
                        !.len = VirtualSensorOutputInto(sensor),
                        !.result = IF rc = "BSEC_OK" THEN "Ok"
                                                     ELSE "BsecError"]
    /\ UNCHANGED <<lockVars, monVars, subscribed, ulp_plus_queue, args,
                   time_stamp, configuration, measurement_available_after>>

\* The caller is between two calls.
BetweenCalls == ~args.pending /\ lastCall = NoCall

\* The caller changes the rate of one sensor.
CallUpdateOne ==
    /\ BetweenCalls
    /\ \E r \in Requests :
        args' = [pending |-> TRUE, reqs |-> <<r>>, copies |-> 1]
    /\ UNCHANGED <<lockVars, monVars, subscribed, ulp_plus_queue, lastCall,
                   time_stamp, configuration, measurement_available_after>>

CallGetState == BetweenCalls /\ GetState

CallGetConfiguration == BetweenCalls /\ GetConfigurationCall

\* bsec.rs:848-856  the caller hands the state it has just taken back to
\* the Bsec
RestoreState ==
    /\ ~args.pending
    /\ lastCall.op = "get_state"
    /\ lastCall.result = "Ok"
    /\ SetState
    /\ lastCall'.raw = lastCall.value

\* The caller hands the configuration it has just taken back to the Bsec.
RestoreConfiguration ==
    /\ ~args.pending
    /\ lastCall.op = "get_configuration"
    /\ lastCall.result = "Ok"
    /\ SetConfiguration
    /\ lastCall'.raw = lastCall.value

\* A Bsec as Bsec::init builds it, whose engine has made some steps and has
\* or has not been given a configuration, on the BME680 as Dev::new builds it
\* (bme680.rs:37-43).
AdapterInit ==
    /\ LockHeld
    /\ MonitorRests
    /\ engState \in EngStates
    /\ subscribed = {}
    /\ ulp_plus_queue = {}
    /\ args = NoArgs
    /\ lastCall = NoCall
    /\ time_stamp = 0
    /\ configuration \in {<<>>, <<1>>}
    /\ measurement_available_after = "None"

AdapterNext ==
    \/ CallUpdateOne
    \/ UpdateSubscription
    \/ StartNextMeasurement
    \/ ProcessLastMeasurement
    \/ CallGetState
    \/ RestoreState
    \/ CallGetConfiguration
    \/ RestoreConfiguration
    \/ ResetOutput
    \/ TakeResult

AdapterSpec == AdapterInit /\ [][AdapterNext]_vars

\* ------------------------------------------------ ConversionSpec: the
\* conversions between the sensor enums and their wire codes
\* (bsec.rs:417-541)

\* The values of a u8.
U8 == 0..U8Max

\* bsec.rs:417-441  PhysicalSensorInput::try_from(code)
TryFromPhysical ==
    /\ \E code \in U8 :
        LET r == PhysicalSensorInputTryFrom(code) IN
        lastCall' = [NoCall EXCEPT
                        !.op = "PhysicalSensorInput::try_from",
                        !.len = code,
                        !.result = IF r.ok THEN "Ok" ELSE "ConversionError",
                        !.value = IF r.ok THEN <<r.sensor>> ELSE <<>>]
    /\ UNCHANGED <<lockVars, monVars, subscribed, ulp_plus_queue, args,
                   time_stamp, configuration, measurement_available_after>>

\* bsec.rs:443-461  u8::from(sensor) of a PhysicalSensorInput
IntoPhysical ==
    /\ \E v \in PhysicalSensorInput :
        lastCall' = [NoCall EXCEPT
                        !.op = "PhysicalSensorInput::into",
                        !.value = <<v>>,
                        !.len = PhysicalSensorInputIntoU8(v),
                        !.result = "Ok"]
    /\ UNCHANGED <<lockVars, monVars, subscribed, ulp_plus_queue, args,
                   time_stamp, configuration, measurement_available_after>>

\* bsec.rs:507-541  VirtualSensorOutput::try_from(code)
TryFromVirtual ==
    /\ \E code \in U8 :
        LET r == VirtualSensorOutputTryFrom(code) IN
        lastCall' = [NoCall EXCEPT
                        !.op = "VirtualSensorOutput::try_from",
                        !.len = code,
                        !.result = IF r.ok THEN "Ok" ELSE "ConversionError",
                        !.value = IF r.ok THEN <<r.sensor>> ELSE <<>>]
    /\ UNCHANGED <<lockVars, monVars, subscribed, ulp_plus_queue, args,
                   time_stamp, configuration, measurement_available_after>>

\* bsec.rs:481-505  bsec_virtual_sensor_t::from(sensor) of a
\* VirtualSensorOutput
IntoVirtual ==
    /\ \E v \in 1..Len(VirtualSensorOutput) :
        lastCall' = [NoCall EXCEPT
                        !.op = "VirtualSensorOutput::into",
                        !.value = <<v>>,
                        !.len = VirtualSensorOutputInto(v),
                        !.result = "Ok"]
    /\ UNCHANGED <<lockVars, monVars, subscribed, ulp_plus_queue, args,
                   time_stamp, configuration, measurement_available_after>>

ConversionNext ==
    \/ TryFromPhysical
    \/ IntoPhysical
    \/ TryFromVirtual
    \/ IntoVirtual

ConversionSpec == LockInit /\ [][ConversionNext]_vars

\* ------------------------------------------------------------------ claims

\* C1: a Bsec::init that runs while another Bsec is alive fails with
\* BsecAlreadyInUse; a Bsec::init that runs right after the live Bsec was
\* dropped is not refused by the lock (it succeeds unless bsec_init itself
\* reports an engine error).
C1_Exclusivity ==
    \A t \in Tasks :
        /\ (aliveAtCas[t] /\ taskResult[t] # "none")
               => taskResult[t] = "BsecAlreadyInUse"
        /\ (casAfterDrop[t] /\ taskResult[t] # "none")
               => taskResult[t] \in {"pending", "Ok", "BsecError"}
        /\ (casAfterDrop[t] /\ taskPc[t] = "holding") => taskResult[t] = "Ok"

\* A second init was refused while a first Bsec was alive, and after the drop
\* of the first an init succeeded.
C1_Witness ==
    \E t, u \in Tasks :
        /\ t # u
        /\ aliveAtCas[t] /\ taskResult[t] = "BsecAlreadyInUse"
        /\ casAfterDrop[u] /\ taskResult[u] = "Ok" /\ taskPc[u] = "holding"

\* C2: at most one live engine instance exists at any time, and a task that
\* is past the compare-and-swap excludes every other.
C2_AtMostOneLive ==
    /\ Cardinality(live) <= 1
    /\ Cardinality({t \in Tasks : taskPc[t] \in {"bsec_init", "holding"}}) <= 1

\* One task holds a Bsec and another has just been refused.
C2_Witness ==
    \E t, u \in Tasks :
        /\ t # u
        /\ live = {t}
        /\ taskResult[u] = "BsecAlreadyInUse"

\* C3: when a persisted blob is restored, no engine step has been performed
\* before the restore.
C3_RestoreBeforeFirstStep == restoreOrder # "step_first"

\* C4: after stop() has returned Ok the caller owns the Bsec again and the
\* state file holds exactly get_state() of that Bsec.
C4_FinalSnapshot ==
    (callerPc = "stopped" /\ pc = "done_ok")
        => /\ file = FileOf(GetStateBlob(engState))
           /\ MonitorTask \in live
           /\ BSEC_IN_USE

\* stop() returned Ok after a cold start and without any periodic save.
C4_Witness ==
    /\ callerPc = "stopped"
    /\ pc = "done_ok"
    /\ restoreOrder = "none"
    /\ ~autosaved

\* C5: an iteration that ends with SaveInterval or more on the clock since
\* the loop began has made a periodic save (while none was made,
\* last_state_save is the time the loop began); and a loop left on a shutdown
\* request has called save_state exactly once after leaving, whatever the
\* time since the last save.
C5_AutosaveCadence ==
    /\ (pc = "yield" /\ ~autosaved) => now - last_state_save < SaveInterval
    /\ exitSaves <= 1
    /\ pc = "done_ok" => exitSaves = 1

\* A periodic save was made, and the final one followed before another
\* interval had passed.
C5_Witness ==
    /\ pc = "done_ok"
    /\ autosaved
    /\ exitSaves = 1
    /\ now - last_state_save < SaveInterval

\* C6 as stated: the periodic snapshot is taken exactly when the time since
\* the last snapshot exceeds the interval.
C6_SaveIffExceeds ==
    [][(pc = "save_check" /\ pc' # pc)
          => ((pc' = "autosave") <=> (now' - last_state_save > SaveInterval))]_vars

\* C6 amended: the periodic snapshot is attempted exactly when the time since
\* last_state_save is at least the interval, and the loop writes the
\* state file nowhere else in an iteration.
C6_SaveIffAtLeast ==
    [][/\ (pc = "save_check" /\ pc' # pc)
          => ((pc' = "autosave") <=> (now' - last_state_save >= SaveInterval))
       /\ (file' # file /\ pc' # pc) => pc \in {"autosave", "final_save"}]_vars

\* The periodic snapshot is about to be taken with exactly the interval
\* elapsed.
C6_Witness ==
    /\ pc = "autosave"
    /\ now - last_state_save = SaveInterval

\* C7: the loop is left only between iterations: when it is, no iteration
\* is open, no measurement is in flight, the outputs of the latest step are
\* the published ones, and the final snapshot is the engine's state.
C7_CancelAtBoundary ==
    /\ pc \in {"final_save", "done_ok"}
          => (~iterOpen /\ ~measuring /\ current = outputs)
    /\ pc = "done_ok" => file = FileOf(GetStateBlob(engState))

\* A shutdown request arrived during an iteration, and the iteration went on
\* to publish its outputs.
C7_Witness ==
    /\ pc = "save_check"
    /\ shutdown = "sent"
    /\ current = outputs

\* C8: once stop() has sent the shutdown request, the monitoring task ends
\* and stop() returns its result.
C8_StopReturns == (callerPc = "stopping") ~> (callerPc = "stopped" /\ pc \in {"done_ok", "done_err"})

\* stop() has returned the result of a loop that left on the request sent
\* while it was measuring.
C8_Witness ==
    /\ callerPc = "stopped"
    /\ pc = "done_ok"
    /\ shutdown = "sent"
    /\ stepped

\* C9: every control query is preceded by a sleep computation made since
\* the previous control query.
C9_SleepBeforeEveryQuery == AtControl => sleepComputed

\* C10: the first control query of a tick carries a timestamp that is not
\* earlier than the stored next_measurement.
C10_FirstQueryNotEarly ==
    [][(pc = "nm_control" /\ pc' # pc) => now' >= next_measurement]_vars

\* The first control query of a loop tick was issued after a sleep.
C10_Witness ==
    /\ phase = "loop"
    /\ pc \in {"nm_control_retry", "nm_sleep2"}
    /\ slept

\* C11: start_next_measurement with a directive that does not trigger a
\* measurement yields WouldBlock without a call of the sensor's
\* start_measurement; with one that does, it calls start_measurement once,
\* with the directive's settings, and returns the duration the sensor
\* reported.
C11_StartNextMeasurement ==
    (lastCall.op = "start_next_measurement" /\ lastCall.result # "BsecError")
        => IF lastCall.directive.trigger_measurement = 1
              THEN /\ Len(lastCall.starts) = 1
                   /\ lastCall.starts[1].settings = lastCall.directive.settings
                   /\ IF lastCall.starts[1].answer.ok
                         THEN /\ lastCall.result = "Ok"
                              /\ lastCall.value
                                    = <<lastCall.starts[1].answer.duration>>
                         ELSE lastCall.result = "BmeSensorError"
              ELSE /\ lastCall.result = "WouldBlock"
                   /\ lastCall.starts = <<>>

\* A triggering directive was forwarded to the sensor and the duration the
\* sensor reported was returned.
C11_Witness ==
    /\ lastCall.op = "start_next_measurement"
    /\ lastCall.directive.trigger_measurement = 1
    /\ Len(lastCall.starts) = 1
    /\ lastCall.starts[1].settings = "profile_b"
    /\ lastCall.result = "Ok"
    /\ lastCall.value = <<MaxDuration>>

\* C12: when process_last_measurement is called, the clock is at least the
\* profile duration past the time start_next_measurement returned.
C12_SleepsProfileDuration ==
    AtProcess => now >= startedAt + duration

\* The first call of process_last_measurement is due, a whole non-zero
\* profile duration after the start.
C12_Witness ==
    /\ pc = "nm_process"
    /\ duration > 0
    /\ now = startedAt + duration

\* C13: an error ends start() or the loop at once and for good, nothing is
\* tried again after it, stop() returns that result; the steps that repeat
\* a call are those after WouldBlock, and they raise no error.
C13_ErrorEndsLoop ==
    [][/\ errors' > errors => (errors = 0 /\ pc' \in {"done_err", "start_failed"})
       /\ pc \in {"done_err", "start_failed"} => (pc' = pc /\ errors' = errors)
       /\ (pc' \in {"nm_control_retry", "nm_process_retry"}) => errors' = errors
       /\ (callerPc' = "stopped" /\ callerPc # "stopped")
             => (pc \in {"done_ok", "done_err"} /\ ((pc = "done_err") <=> (errors = 1)))
      ]_vars

\* stop() has returned the error the loop ended with.
C13_Witness ==
    /\ callerPc = "stopped"
    /\ pc = "done_err"
    /\ errors = 1

\* C14 as stated: when the loop has ended, the engine instance has been
\* destroyed and the lock is free.
C14_DestroyedOnLoopExit ==
    pc \in {"done_ok", "done_err"} => (drops = 1 /\ ~BSEC_IN_USE)

\* C14 amended: the Bsec is dropped at most once; a loop that ends with an
\* error drops it, a loop that ends normally hands it to the caller with the
\* lock held, and it is dropped when the caller drops it; once it is
\* dropped a Bsec::init acquires the lock.
C14_DestroyedOnce ==
    /\ drops <= 1
    /\ pc \in {"done_err", "start_failed"} => drops = 1
    /\ (pc \notin {"done_err", "start_failed"} /\ callerPc # "released")
          => (drops = 0 /\ BSEC_IN_USE /\ MonitorTask \in live)
    /\ callerPc = "released" => (pc = "done_ok" /\ drops = 1)
    /\ drops = 1
          => /\ live = {}
             /\ Acquired(CompareAndSwap(BSEC_IN_USE, FALSE, TRUE).prev)

\* The loop ended normally, stop() returned the Bsec and the caller dropped
\* it.
C14_Witness ==
    /\ pc = "done_ok"
    /\ callerPc = "released"
    /\ drops = 1
    /\ ~BSEC_IN_USE

\* C15: a successful update_subscription leaves every sensor where the last
\* request that concerns it puts it: the subscribed set follows the last
\* request for the sensor that is not UlpMeasurementOnDemand (Disabled takes
\* it out, any other rate puts it in), the one-shot set follows the last one
\* that is Disabled (out) or UlpMeasurementOnDemand (in); a sensor with no
\* such request stays where it was.
C15_AppliesInOrder ==
    [][(args.pending /\ ~args'.pending /\ lastCall'.result = "Ok")
        => \A s \in Sensors :
            LET reqs == args.reqs
                forSub == {i \in 1..Len(reqs) :
                             /\ reqs[i].sensor = s
                             /\ reqs[i].sample_rate # "UlpMeasurementOnDemand"}
                forUlp == {i \in 1..Len(reqs) :
                             /\ reqs[i].sensor = s
                             /\ reqs[i].sample_rate
                                   \in {"Disabled", "UlpMeasurementOnDemand"}}
                Last(S) == CHOOSE i \in S : \A j \in S : j <= i
            IN  /\ (s \in subscribed') <=>
                      IF forSub = {} THEN s \in subscribed
                      ELSE reqs[Last(forSub)].sample_rate # "Disabled"
                /\ (s \in ulp_plus_queue') <=>
                      IF forUlp = {} THEN s \in ulp_plus_queue
                      ELSE reqs[Last(forUlp)].sample_rate
                              = "UlpMeasurementOnDemand"
      ]_vars

\* An accepted update with a Disabled and an UlpMeasurementOnDemand request
\* has left one sensor queued and another subscribed.
C15_Witness ==
    /\ lastCall.op = "update_subscription"
    /\ lastCall.result = "Ok"
    /\ lastCall.rates = {"Disabled", "UlpMeasurementOnDemand"}
    /\ subscribed # {}
    /\ ulp_plus_queue # {}
    /\ subscribed \cap ulp_plus_queue = {}

\* C16 as stated: after an accepted update whose requests name distinct
\* sensors, a Disabled sensor is out of the buffer sizing, an
\* UlpMeasurementOnDemand sensor is in it and no other sensor's place has
\* changed; a call of process_last_measurement that gets a
\* reading sizes its buffer to subscribed \cup one-shot, adds no
\* sensor to the sizing of later steps, and every sensor of the one-shot set
\* is out of the sizing of the step after it.
C16_OneShotGoneAfterStep ==
    [][/\ (/\ args.pending /\ ~args'.pending /\ lastCall'.result = "Ok"
           /\ \A i, j \in 1..Len(args.reqs) :
                 i # j => args.reqs[i].sensor # args.reqs[j].sensor)
          => LET before == BufferSensors(subscribed, ulp_plus_queue)
                 after == BufferSensors(subscribed', ulp_plus_queue')
                 named == {args.reqs[i].sensor : i \in 1..Len(args.reqs)}
             IN  /\ \A i \in 1..Len(args.reqs) :
                       /\ args.reqs[i].sample_rate = "Disabled"
                             => args.reqs[i].sensor \notin after
                       /\ args.reqs[i].sample_rate = "UlpMeasurementOnDemand"
                             => args.reqs[i].sensor \in after
                 /\ after \ named = before \ named
       /\ (/\ lastCall'.op = "process_last_measurement"
           /\ lastCall'.result \notin {"WouldBlock", "BmeSensorError"})
          => /\ lastCall'.buffer = BufferSensors(subscribed, ulp_plus_queue)
             /\ BufferSensors(subscribed', ulp_plus_queue') \subseteq lastCall'.buffer
             /\ \A s \in ulp_plus_queue :
                   s \notin BufferSensors(subscribed', ulp_plus_queue')
      ]_vars

\* C16 amended: the same, but after the step a sensor of the one-shot set is
\* out of the sizing of the next step only if it is not subscribed: the
\* sizing of the next step is the subscribed set.
C16_OneShotOneStep ==
    [][/\ (/\ args.pending /\ ~args'.pending /\ lastCall'.result = "Ok"
           /\ \A i, j \in 1..Len(args.reqs) :
                 i # j => args.reqs[i].sensor # args.reqs[j].sensor)
          => LET before == BufferSensors(subscribed, ulp_plus_queue)
                 after == BufferSensors(subscribed', ulp_plus_queue')
                 named == {args.reqs[i].sensor : i \in 1..Len(args.reqs)}
             IN  /\ \A i \in 1..Len(args.reqs) :
                       /\ args.reqs[i].sample_rate = "Disabled"
                             => args.reqs[i].sensor \notin after
                       /\ args.reqs[i].sample_rate = "UlpMeasurementOnDemand"
                             => args.reqs[i].sensor \in after
                 /\ after \ named = before \ named
       /\ (/\ lastCall'.op = "process_last_measurement"
           /\ lastCall'.result \notin {"WouldBlock", "BmeSensorError"})
          => /\ lastCall'.buffer = BufferSensors(subscribed, ulp_plus_queue)
             /\ BufferSensors(subscribed', ulp_plus_queue') = subscribed
             /\ subscribed' = subscribed
      ]_vars

\* A step has sized its buffer for a subscribed sensor and a sensor that was
\* only queued, and the next step's sizing has the subscribed one alone.
C16_Witness ==
    /\ lastCall.op = "process_last_measurement"
    /\ lastCall.engineCalled
    /\ subscribed # {}
    /\ lastCall.buffer \ subscribed # {}
    /\ BufferSensors(subscribed, ulp_plus_queue) = subscribed

\* C17: an update_subscription that does not return Ok leaves both sets as
\* they were; a call that changes a set has reached the engine and returned
\* Ok.
C17_UpdateAtomic ==
    [][(args.pending /\ ~args'.pending)
        => /\ lastCall'.result # "Ok"
                => (subscribed' = subscribed /\ ulp_plus_queue' = ulp_plus_queue)
           /\ (subscribed' # subscribed \/ ulp_plus_queue' # ulp_plus_queue)
                => (lastCall'.result = "Ok" /\ lastCall'.engineCalled)
      ]_vars

\* The engine has refused a list of Continuous requests and nothing is
\* subscribed.
C17_Witness ==
    /\ lastCall.op = "update_subscription"
    /\ lastCall.result = "BsecError"
    /\ lastCall.rates = {"Continuous"}
    /\ subscribed = {}
    /\ ulp_plus_queue = {}

\* C18: update_subscription with a list longer than a u8 counts returns
\* ArgumentListTooLong and the engine is not called; a list a u8 counts is
\* not refused for its length.
C18_ArgumentListTooLong ==
    lastCall.op = "update_subscription"
        => IF lastCall.len > U8Max
              THEN lastCall.result = "ArgumentListTooLong" /\ ~lastCall.engineCalled
              ELSE lastCall.result # "ArgumentListTooLong" /\ lastCall.engineCalled

\* A list one longer than a u8 counts has been refused.
C18_Witness ==
    /\ lastCall.op = "update_subscription"
    /\ lastCall.len = U8Max + 1
    /\ lastCall.result = "ArgumentListTooLong"

\* C19: when bsec_do_steps has succeeded, process_last_measurement returns
\* Ok with the outputs that convert, whatever the others are.
C19_DropsUnconvertible ==
    (/\ lastCall.op = "process_last_measurement"
     /\ lastCall.result \in {"Ok", "ConversionError"})
        => /\ lastCall.result = "Ok"
           /\ lastCall.value = Convertible(lastCall.raw, 1)

\* C20: a successful update_subscription returns one entry for each of the
\* first n reported entries whose sensor id is a physical sensor's, in the
\* engine's order, each with that entry's sample rate and sensor.
C20_RequiredSettingsFiltered ==
    (lastCall.op = "update_subscription" /\ lastCall.result = "Ok")
        => LET ids == lastCall.raw
               valid == {i \in 1..Len(ids) : ids[i] \in {1, 2}}
               value == lastCall.value
           IN  /\ Len(value) = Cardinality(valid)
               /\ \A k \in 1..Len(value) :
                     /\ value[k].sample_rate \in valid
                     /\ value[k].sensor
                           = IF ids[value[k].sample_rate] = 1
                                THEN "Pressure" ELSE "Humidity"
               /\ \A k, l \in 1..Len(value) :
                     k < l => value[k].sample_rate < value[l].sample_rate

\* The engine has reported an entry without a physical sensor before a good
\* one, and the call has returned the good one alone.
C20_Witness ==
    /\ lastCall.op = "update_subscription"
    /\ lastCall.result = "Ok"
    /\ Len(lastCall.raw) = 2
    /\ lastCall.raw[1] = 0
    /\ Len(lastCall.value) = 1
    /\ lastCall.value[1].sensor = "Humidity"

\* ------------------------------------------------------------------- C21

\* A call of process_last_measurement in which bsec_do_steps runs and
\* succeeds: the engine has made a step.
StepCompletes == AtProcess /\ engState' # engState

\* The two places a vector of next_measurement is published from: the
\* creation of the watch channel and set_current.send.
AtPublication == pc \in {"start_channel", "loop_send"}

\* C21: every completed engine step is followed by one publication, of the
\* complete output vector of that step, and nothing else is ever published;
\* whenever the reader can run its Monitor::current holds that vector; and a
\* send to a channel with a receiver is never held up by the reader.
C21_OnePublicationPerStep ==
    /\ [][/\ StepCompletes
              => /\ pc' \in {"start_channel", "loop_send"}
                 /\ outputs' = StepOutputs(engState', now', subscribed,
                                           ulp_plus_queue)
          /\ (AtPublication /\ pc' # pc /\ receiverAlive)
              => current' = outputs
          /\ current' # current => AtPublication
          /\ (AtPublication /\ pc' = pc) => UNCHANGED monVars]_vars
    /\ [](phase = "loop" /\ Suspended /\ pc # "done_err" => current = outputs)
    /\ [](pc = "loop_send" /\ receiverAlive => ENABLED LoopSend)

\* ------------------------------------------------------------------- C22

C23_SmokeTest ==
    (phase = "loop")
        => /\ Len(current) = 1
           /\ current[1].sensor = RawTemperature
           /\ current[1].signal - 22 < 1
           /\ 22 - current[1].signal < 1

\* The loop has published the vector of a step of its own, after the one
\* Monitor::start had put in the channel.
C23_Witness ==
    /\ phase = "loop"
    /\ pc = "save_check"
    /\ current = outputs
    /\ Len(current) = 1

\* ------------------------------------------------------------------- C24

\* C24: in the scheduler, starts and successful reads of the sensor take
\* turns, a start first: process_last_measurement (and with it
\* get_measurement) is only called while a measurement started with success
\* waits for its reading, and a measurement is only started when none waits.
C24_StartsAndReadsAlternate ==
    /\ [](AtProcess => measuring)
    /\ [][(AtControl /\ measuring' /\ pc' # pc /\ pc' \notin {"start_failed", "done_err"})
             => ~measuring]_vars
    /\ [][(measuring /\ ~measuring') => AtProcess]_vars

\* The loop has started a measurement after the reading of an earlier one
\* was taken and stepped through the engine.
C24_Witness ==
    /\ phase = "loop"
    /\ stepped
    /\ measuring
    /\ pc = "nm_process"

\* ------------------------------------------------------------------- C25

\* C25: a load_state that follows a successful save_state(b), whatever was
\* saved or left in the file before, and that succeeds, returns Some(b):
\* exactly the blob saved last, nothing of an earlier one.
C25_StateFileRoundTrips ==
    [][(/\ lastCall.op = "save_state"
        /\ lastCall.result = "Ok"
        /\ lastCall'.op = "load_state"
        /\ lastCall'.result = "Ok")
          => lastCall'.value = <<lastCall.raw>>]_vars

\* A load has returned a blob of the full length, which only a complete save
\* can have written.
C25_Witness ==
    /\ lastCall.op = "load_state"
    /\ lastCall.result = "Ok"
    /\ lastCall.value # <<>>
    /\ Len(lastCall.value[1]) = MaxBlobLen
    /\ lastCall.value[1][1] # lastCall.value[1][2]

\* ------------------------------------------------------------------- C26

\* C26: load_state returns Ok(None) when File::open answers NotFound, and an
\* error when File::open or read_to_end fails in another way: Ok(None) is
\* returned for a missing file only, and an Err never for one.
C26_MissingFileIsNone ==
    lastCall.op = "load_state"
        => LET missing == lastCall.io = <<"NotFound">>
               failed == lastCall.io # <<"Ok", "Ok">> /\ ~missing
               none == lastCall.result = "Ok" /\ lastCall.value = <<>>
           IN  /\ missing => none
               /\ failed => lastCall.result = "IoError"
               /\ none => missing
               /\ lastCall.result = "IoError" => failed

\* A load has found no file and returned Ok(None).
C26_Witness ==
    /\ lastCall.op = "load_state"
    /\ lastCall.io = <<"NotFound">>
    /\ lastCall.result = "Ok"
    /\ lastCall.value = <<>>

\* ------------------------------------------------------------------- C27

\* C27: a save_state that fails leaves the persisted state as it was, so that
\* a load_state after it still returns the blob persisted before, whole.
C27_FailedSaveKeepsState ==
    [][(lastCall'.op = "save_state" /\ lastCall'.result # "Ok")
          => file' = file]_vars

\* ------------------------------------------------------------------- C28

\* C28: a set_state of the blob that the get_state just before has returned,
\* on the same Bsec or on one built anew in between, succeeds, and the engine
\* goes on from the state the blob was taken of: a get_state after it returns
\* that blob again.
C28_StateRoundTrips ==
    [][(/\ lastCall.op = "get_state"
        /\ lastCall.result = "Ok"
        /\ lastCall'.op = "set_state"
        /\ lastCall'.raw = lastCall.value)
          => /\ lastCall'.result = "Ok"
             /\ GetStateBlob(engState') = lastCall.value
             /\ ValidBlob(lastCall.value)
             /\ engState' = DecodeBlob(lastCall.value)]_vars

\* A set_state right after a get_state has succeeded and has brought the
\* engine to the state of the blob, which is not the state bsec_init leaves
\* it in.
C28_Witness ==
    /\ lastCall.op = "set_state"
    /\ lastCall.follows = "get_state"
    /\ lastCall.result = "Ok"
    /\ engState # 0
    /\ GetStateBlob(engState) = lastCall.raw

\* ------------------------------------------------------------------- C29

\* C29: a get_configuration right after a set_configuration(blob), both
\* successful, returns bytes equal to blob.
C29_ConfigurationRoundTrips ==
    [][(/\ lastCall.op = "set_configuration"
        /\ lastCall.result = "Ok"
        /\ lastCall'.op = "get_configuration"
        /\ lastCall'.result = "Ok")
          => lastCall'.value = lastCall.raw]_vars

\* A get_configuration right after a set_configuration has returned a blob
\* that does not fill the buffer.
C29_Witness ==
    /\ lastCall.op = "get_configuration"
    /\ lastCall.follows = "set_configuration"
    /\ lastCall.result = "Ok"
    /\ lastCall.value = configuration
    /\ Len(lastCall.value) \in 1..(BSEC_MAX_PROPERTY_BLOB_SIZE - 1)

\* ------------------------------------------------------------------- C30

\* C30: both sensor enums map one to one to their wire codes.  The code a
\* variant is turned into decodes to that variant, and no other variant is
\* turned into it; a code that decodes is the code of the variant it decodes
\* to; and a code that no variant is turned into fails to decode with a
\* conversion error.
C30_SensorCodesBijective ==
    LET physicalCodes ==
            {PhysicalSensorInputIntoU8(w) : w \in PhysicalSensorInput}
        virtuals == 1..Len(VirtualSensorOutput)
        virtualCodes == {VirtualSensorOutputInto(w) : w \in virtuals}
    IN  /\ lastCall.op = "PhysicalSensorInput::into"
            => /\ PhysicalSensorInputTryFrom(lastCall.len)
                     = [ok |-> TRUE, sensor |-> lastCall.value[1]]
               /\ \A w \in PhysicalSensorInput :
                     PhysicalSensorInputIntoU8(w) = lastCall.len
                         => w = lastCall.value[1]
        /\ lastCall.op = "PhysicalSensorInput::try_from"
            => /\ lastCall.result = "Ok"
                     => PhysicalSensorInputIntoU8(lastCall.value[1])
                            = lastCall.len
               /\ lastCall.len \notin physicalCodes
                     => lastCall.result = "ConversionError"
        /\ lastCall.op = "VirtualSensorOutput::into"
            => /\ VirtualSensorOutputTryFrom(lastCall.len)
                     = [ok |-> TRUE, sensor |-> lastCall.value[1]]
               /\ \A w \in virtuals :
                     VirtualSensorOutputInto(w) = lastCall.len
                         => w = lastCall.value[1]
        /\ lastCall.op = "VirtualSensorOutput::try_from"
            => /\ lastCall.result = "Ok"
                     => VirtualSensorOutputInto(lastCall.value[1])
                            = lastCall.len
               /\ lastCall.len \notin virtualCodes
                     => lastCall.result = "ConversionError"

\* A code above every variant's has been decoded, with a conversion error.
C30_Witness ==
    /\ lastCall.op = "PhysicalSensorInput::try_from"
    /\ lastCall.len = U8Max
    /\ lastCall.result = "ConversionError"

\* ------------------------------------------------------------------- C31

\* C31: a process_last_measurement whose sensor answers get_measurement with
\* WouldBlock returns WouldBlock, has not called the engine, and leaves the
\* subscribed set, the one-shot set and next_measurement as they were.
C31_WouldBlockPassesThrough ==
    [][(/\ lastCall'.op = "process_last_measurement"
        /\ lastCall # lastCall'
        /\ lastCall'.reading = "WouldBlock")
          => /\ lastCall'.result = "WouldBlock"
             /\ ~lastCall'.engineCalled
             /\ subscribed' = subscribed
             /\ ulp_plus_queue' = ulp_plus_queue
             /\ next_measurement' = next_measurement]_vars

\* The sensor has answered WouldBlock while a sensor was subscribed and a
\* one-shot request was queued, and the request is still queued.
C31_Witness ==
    /\ lastCall.op = "process_last_measurement"
    /\ lastCall.reading = "WouldBlock"
    /\ lastCall.result = "WouldBlock"
    /\ subscribed # {}
    /\ ulp_plus_queue # {}

\* ------------------------------------------------------------------- C32

\* C32: process_last_measurement clears the one-shot set only after it has
\* called the engine step, and a call that returns an error without the
\* engine having made the step leaves the one-shot set as it was.
C32_OneShotKeptWithoutStep ==
    [][(/\ lastCall'.op = "process_last_measurement"
        /\ lastCall # lastCall')
          => /\ ulp_plus_queue' # ulp_plus_queue => lastCall'.engineCalled
             /\ (/\ lastCall'.result \notin {"Ok", "WouldBlock"}
                 /\ ~StepMade(lastCall'))
                   => ulp_plus_queue' = ulp_plus_queue]_vars

\* ------------------------------------------------------------------- C33

\* C33: next_measurement is the time of Bsec::init until the first control
\* query the engine answers; a start_next_measurement whose control query
\* the engine answers stores the directive's next_call, whether the
\* directive triggers a measurement or not and whatever the sensor answers;
\* one whose control query fails leaves the stored value as it was; and no
\* other call changes it.
C33_NextMeasurementIsLastNextCall ==
    /\ next_measurement = now
    /\ [][/\ (/\ lastCall'.op = "start_next_measurement"
              /\ lastCall # lastCall')
                => IF lastCall'.result = "BsecError"
                      THEN next_measurement' = next_measurement
                      ELSE next_measurement' = lastCall'.directive.next_call
          /\ next_measurement' # next_measurement
                => /\ lastCall'.op = "start_next_measurement"
                   /\ lastCall # lastCall']_vars

\* A control query that triggered no measurement has been answered with a
\* next_call other than the time of Bsec::init, and next_measurement is that
\* next_call.
C33_Witness ==
    /\ lastCall.op = "start_next_measurement"
    /\ lastCall.result = "WouldBlock"
    /\ lastCall.directive.next_call # 0
    /\ next_measurement = lastCall.directive.next_call

\* ------------------------------------------------------------------- C34

\* C34: the subscribed set changes in a call of update_subscription only:
\* start_next_measurement, process_last_measurement, get_state, set_state,
\* get_configuration, set_configuration and reset_output leave it as it was,
\* whatever they return.
C34_SubscribedChangedByUpdateOnly ==
    [][/\ subscribed' # subscribed
            => /\ lastCall'.op = "update_subscription"
               /\ lastCall # lastCall'
       /\ (/\ lastCall # lastCall'
           /\ lastCall'.op \in {"start_next_measurement",
                                "process_last_measurement", "get_state",
                                "set_state", "get_configuration",
                                "set_configuration", "reset_output"})
            => subscribed' = subscribed]_vars

\* A process_last_measurement has run the engine step for a subscribed
\* sensor and a sensor that was only queued: the queue is cleared, the
\* subscribed set is still there.
C34_Witness ==
    /\ lastCall.op = "process_last_measurement"
    /\ lastCall.engineCalled
    /\ subscribed # {}
    /\ lastCall.buffer \ subscribed # {}
    /\ ulp_plus_queue = {}

\* ------------------------------------------------------------------- C35

\* C35 as stated: a method of the Bsec panics only if it is
\* process_last_measurement and no start_next_measurement has been called
\* before it.  A start_next_measurement whose control query the engine
\* answered with a next_call other than the time of Bsec::init has left that
\* next_call in next_measurement, so after a panic next_measurement is still
\* the time of Bsec::init.
C35_PanicsOnlyBeforeAnyStart ==
    lastCall.result = "panic"
        => /\ lastCall.op = "process_last_measurement"
           /\ next_measurement = 0

\* C35 amended: the BME680 has a measurement to give from the first
\* start_next_measurement that returns Ok on; a process_last_measurement
\* called before that panics, whatever calls came before it, and no other
\* call of a Bsec method panics: every failure is a result of the call.
C35_PanicsUntilStarted ==
    /\ measurement_available_after = "None"
    /\ [][/\ measurement_available_after' # measurement_available_after
               => /\ lastCall'.op = "start_next_measurement"
                  /\ lastCall # lastCall'
                  /\ lastCall'.result = "Ok"
          /\ (/\ lastCall'.op = "start_next_measurement"
              /\ lastCall # lastCall'
              /\ lastCall'.result = "Ok")
               => measurement_available_after' = "Some"
          /\ (lastCall # lastCall' /\ lastCall'.result = "panic")
               => /\ lastCall'.op = "process_last_measurement"
                  /\ measurement_available_after = "None"
          /\ (/\ lastCall'.op = "process_last_measurement"
              /\ lastCall # lastCall'
              /\ measurement_available_after = "None")
               => lastCall'.result = "panic"
          /\ (lastCall # lastCall' /\ lastCall' # NoCall)
               => lastCall'.result \in
                     {"Ok", "WouldBlock", "BsecError", "BmeSensorError",
                      "ArgumentListTooLong", "ConversionError", "panic"}
         ]_vars

\* A start_next_measurement has been called and has started no measurement
\* (the engine's directive triggered none), and the process_last_measurement
\* after it has panicked.
C35_Witness ==
    /\ lastCall.op = "process_last_measurement"
    /\ lastCall.result = "panic"
    /\ next_measurement # 0
    /\ measurement_available_after = "None"

\* ------------------------------------------------------------------- C36

\* C36: the loop yields at the end of every iteration: it reaches yield_now
\* from the periodic-save check or the save, which it reaches from the
\* publication; from yield_now it goes to the cancellation check and nowhere
\* else, and while it rests there other tasks can run; an iteration begins at
\* the cancellation check only.  So every engine step of the loop is made in
\* an iteration that was begun at a cancellation check after the step before
\* it was published.
C36_YieldEndsIteration ==
    [][/\ (pc' = "save_check" /\ pc # pc')
            => /\ pc = "loop_send"
               /\ current' = outputs
       /\ (pc' = "autosave" /\ pc # pc') => pc = "save_check"
       /\ (pc' = "yield" /\ pc # pc') => pc \in {"save_check", "autosave"}
       /\ (pc = "yield" /\ pc' # pc)
            => /\ pc' = "check"
               /\ Suspended'
               /\ CancelCheckPoint(pc')
       /\ (pc = "loop_send" /\ pc' # pc) => pc' \in {"save_check", "done_err"}
       /\ (phase = "loop" /\ pc' = "nm_begin" /\ pc # pc')
            => /\ pc = "check"
               /\ ~iterOpen
               /\ iterOpen'
       /\ (phase = "loop" /\ StepCompletes)
            => /\ iterOpen
               /\ pc' = "done_err" \/ (pc' = "loop_send" /\ iterOpen')
       /\ (iterOpen /\ ~iterOpen') => (pc = "loop_send" /\ pc' = "save_check")
      ]_vars

\* The loop has made a step, published it, yielded, and rests at the
\* cancellation check, where the caller can run.
C36_Witness ==
    /\ phase = "loop"
    /\ pc = "check"
    /\ stepped
    /\ ~iterOpen
    /\ current = outputs
    /\ autosaved
    /\ Suspended

\* ------------------------------------------------------------------- C37

\* C37: whenever no Bsec::init is under way, BSEC_IN_USE is set exactly when
\* a Bsec is alive: an init that has failed, refused by the lock or by an
\* engine error of bsec_init, has left no lock behind.
C37_LockHeldIffLive ==
    (\A t \in Tasks : taskPc[t] # "bsec_init")
        => (BSEC_IN_USE <=> live # {})

\* ------------------------------------------------------------------- C38

\* C38: the step in which the monitoring task ends with an error leaves the
\* state file as the last successful save wrote it and drops the Bsec; after
\* it the task makes no save_state, the file changes from outside only, and
\* the Bsec is not handed to anyone.
C38_NoSaveAfterError ==
    [][/\ (pc' = "done_err" /\ pc # "done_err")
            => /\ file' = file
               /\ MonitorTask \in live
               /\ MonitorTask \notin live'
               /\ drops' = drops + 1
               /\ ~BSEC_IN_USE'
       /\ pc = "done_err"
            => /\ pc' = "done_err"
               /\ exitSaves' = exitSaves
               /\ autosaved' = autosaved
               /\ file' # file => TamperFile
               /\ drops' = drops
               /\ MonitorTask \notin live'
      ]_vars

\* ------------------------------------------------------------------- C39

\* C39: the loop is left through the cancellation check, and the final
\* snapshot taken, only when a shutdown message has been sent, which stop()
\* alone does; once the sender is dropped without a message none is ever
\* sent, and a cancellation check that finds the channel closed begins the
\* next iteration.
C39_ClosedChannelDoesNotCancel ==
    [][/\ (pc' \in {"final_save", "done_ok"}) => shutdown' = "sent"
       /\ (pc = "check" /\ pc' = "final_save") => shutdown = "sent"
       /\ (shutdown' = "sent" /\ shutdown # "sent")
            => (shutdown = "empty" /\ callerPc = "running"
                  /\ callerPc' = "stopping")
       /\ shutdown = "closed" => shutdown' = "closed"
       /\ (phase = "loop" /\ pc = "check" /\ pc' # pc /\ shutdown = "closed")
            => (pc' = "nm_begin" /\ iterOpen')
      ]_vars

\* The Monitor was dropped without stop(), and after a published step the
\* loop has passed the cancellation check and begun another iteration.
C39_Witness ==
    /\ shutdown = "closed"
    /\ callerPc = "dropped"
    /\ phase = "loop"
    /\ pc = "nm_begin"
    /\ iterOpen
    /\ stepped
    /\ exitSaves = 0

=============================================================================
